---- MODULE Spec2Model ----
(***************************************************************************)
(* A model of the diagram-recovery pipeline of deepwiki2md:                *)
(*   ContentCleaner.extract_and_convert_svgs / insert_svg_replacements     *)
(*   (src/deepwiki2md/utils.py) and SVGToD2Converter                       *)
(*   (src/deepwiki2md/svg_converter.py).                                   *)
(*                                                                         *)
(* A Python str is modelled as a Text: a sequence of pieces, each piece a  *)
(* TLA+ string, whose concatenation is the text.  A piece is one character *)
(* or one literal that the inputs only ever contain whole (the sentinel    *)
(* "SVG_PLACEHOLDER", a fence of three backquotes, an svg tag).  Every     *)
(* pattern the code searches for is a sequence of whole pieces.            *)
(* The box-drawing characters of the renderer are written with the ASCII   *)
(* stand-ins "+", "-", "|" and "v", and a fence of three backquotes is     *)
(* written "~~~" (SANY does not lex a backquote inside a string reliably).  *)
(***************************************************************************)
EXTENDS Integers, Sequences, FiniteSets, TLC

VARIABLES
    \* _simple_d2_to_ascii: its argument, its locals, what it returned or raised
    d2_content, lines, line_i, nodes, connections, ascii_out, render_exc, rpc

    \* convert_svg_to_ascii: how the endpoint and the d2 tool behave during the
    \* call, its locals, the requests sent, what it returned or raised, the
    \* external processes started, the temporary files created and the ones
    \* still on disk
VARIABLES
    endpoint, d2_tool, llm_response, d2_code, result, requests_sent,
    convert_exc, processes_started, temp_created, temp_left, cpc

    \* ContentCleaner.extract_and_convert_svgs and insert_svg_replacements on
    \* one document: the argument, the locals of the re.sub scan, what the
    \* converter did for each fragment, the Markdown handed to the splicer and
    \* what the splicer returned or raised, the text after each entry of its
    \* loop and the warnings it logged
VARIABLES
    html_content, scan_pos, modified_html, svg_replacements,
    placeholder_counter, outcomes, extract_exc, markdown_content,
    final_markdown, splice_steps, splice_warnings, splice_exc, ppc

    \* scrape_library of one library: which scraper runs it, how the start
    \* goes, how each navigation page behaves, the loop position, the pages
    \* collected, the files written, the fetches and delays in order, what
    \* was returned or raised
VARIABLES
    scraper, save_files, start, nav_items, page_i, scraped_pages, saved,
    events, returned, scrape_exc, spc

    \* extract_and_convert_svgs called for several documents on one
    \* ContentCleaner: the documents, what each call returned
VARIABLES
    documents, call_results, dpc

rvars == << d2_content, lines, line_i, nodes, connections, ascii_out, render_exc, rpc >>
cvars == << endpoint, d2_tool, llm_response, d2_code, result, requests_sent,
            convert_exc, processes_started, temp_created, temp_left, cpc >>
pvars == << html_content, scan_pos, modified_html, svg_replacements,
            placeholder_counter, outcomes, extract_exc, markdown_content,
            final_markdown, splice_steps, splice_warnings, splice_exc, ppc >>
svars == << scraper, save_files, start, nav_items, page_i, scraped_pages,
            saved, events, returned, scrape_exc, spc >>
dvars == << documents, call_results, dpc >>

    \* MarkdownConverter.convert_page on one page: the constructor arguments,
    \* the page, how the translator behaves, the locals, the methods called in
    \* order, the dictionary returned, an exception that escaped
VARIABLES
    strip_navigation, page_in, translator, main_content, page_title, page_markdown,
    calls, convert_result, page_exc, gpc

    \* FileUtils.sanitize_filename: its argument, what it returned
VARIABLES
    filename_in, filename_out, fpc

fvars == << filename_in, filename_out, fpc >>
    \* DeepWikiURL: the argument of the constructor, the object built, the
    \* values read from its properties
VARIABLES
    url_in, url_obj, url_props, upc

uvars == << url_in, url_obj, url_props, upc >>
    \* insert_svg_replacements called with one mapping in two insertion
    \* orders, and once more on what it returned: the Markdown, the mapping in
    \* each order, what each call returned
VARIABLES
    marker_md, map_a, map_b, out_a, out_b, out_again, mpc

mvars == << marker_md, map_a, map_b, out_a, out_b, out_again, mpc >>
    \* extract_and_convert_svgs on a ContentCleaner built with or without a
    \* converter: the object, the argument, what the call returned
VARIABLES
    cleaner, cleaner_html, cleaner_out, npc

nvars == << cleaner, cleaner_html, cleaner_out, npc >>
    \* filter_css_mermaid_content: its argument, its locals, the loop
    \* position, what it returned
VARIABLES
    filter_content, filter_lines, filtered_lines, in_code_block,
    skip_css_block, filter_i, filter_out, kpc

kvars == << filter_content, filter_lines, filtered_lines, in_code_block,
            skip_css_block, filter_i, filter_out, kpc >>
    \* scrape_multiple_libraries: its argument, the loop position, what
    \* scrape_library returned for each URL, the dictionary built, what was
    \* returned
VARIABLES
    lib_urls, lib_i, lib_pages, lib_results, lib_returned, lpc

lvars == << lib_urls, lib_i, lib_pages, lib_results, lib_returned, lpc >>
    \* BrowserDeepwikiScraper used in a with-block: self.pydoll, the browser
    \* instances running, the number started so far, for each page fetch
    \* whether a browser was running, the calls made in the block
VARIABLES
    pydoll, running, started, fetch_log, calls_made, bpc

bvars == << pydoll, running, started, fetch_log, calls_made, bpc >>
gvars == << strip_navigation, page_in, translator, main_content,
            page_title, page_markdown, calls, convert_result, page_exc, gpc >>
ovars == << rvars, cvars, pvars, svars, dvars >>
xvars == << gvars, nvars, fvars, uvars, mvars, kvars, lvars, bvars >>

\* what the actions of one group leave alone: every other group
gframe == << ovars, nvars, fvars, uvars, mvars, kvars, lvars, bvars >>
nframe == << ovars, gvars, fvars, uvars, mvars, kvars, lvars, bvars >>
fframe == << ovars, gvars, nvars, uvars, mvars, kvars, lvars, bvars >>
uframe == << ovars, gvars, nvars, fvars, mvars, kvars, lvars, bvars >>
mframe == << ovars, gvars, nvars, fvars, uvars, kvars, lvars, bvars >>
kframe == << ovars, gvars, nvars, fvars, uvars, mvars, lvars, bvars >>
lframe == << ovars, gvars, nvars, fvars, uvars, mvars, kvars, bvars >>
bframe == << ovars, gvars, nvars, fvars, uvars, mvars, kvars, lvars >>
vars == << ovars, xvars >>

(***************************************************************************)
(* Python str operations on Texts                                          *)
(***************************************************************************)

\* s[i:] of length Len(p) equals p (i is 1-based)
MatchAt(s, p, i) ==
    /\ i >= 1
    /\ i + Len(p) - 1 <= Len(s)
    /\ \A k \in 1..Len(p) : s[i + k - 1] = p[k]

\* str.find(p, from): least index >= from where p occurs, 0 when there is none
RECURSIVE Find(_, _, _)
Find(s, p, from) ==
    IF from + Len(p) - 1 > Len(s) THEN 0
    ELSE IF MatchAt(s, p, from) THEN from
    ELSE Find(s, p, from + 1)

\* p in s
Contains(s, p) == Find(s, p, 1) # 0

\* s.startswith(p)
StartsWith(s, p) == MatchAt(s, p, 1)

\* str.count(p): the number of non-overlapping occurrences, left to right
RECURSIVE CountFrom(_, _, _)
CountFrom(s, p, from) ==
    LET i == Find(s, p, from)
    IN  IF i = 0 THEN 0 ELSE 1 + CountFrom(s, p, i + Len(p))

Count(s, p) == CountFrom(s, p, 1)

\* str.replace(p, r): every non-overlapping occurrence, left to right
RECURSIVE ReplaceFrom(_, _, _, _)
ReplaceFrom(s, p, r, from) ==
    LET i == Find(s, p, from)
    IN  IF i = 0 THEN SubSeq(s, from, Len(s))
        ELSE SubSeq(s, from, i - 1) \o r \o ReplaceFrom(s, p, r, i + Len(p))

Replace(s, p, r) == ReplaceFrom(s, p, r, 1)

\* str.split(sep): the parts between the occurrences of sep (always >= 1 part)
RECURSIVE SplitFrom(_, _, _)
SplitFrom(s, sep, from) ==
    LET i == Find(s, sep, from)
    IN  IF i = 0 THEN << SubSeq(s, from, Len(s)) >>
        ELSE << SubSeq(s, from, i - 1) >> \o SplitFrom(s, sep, i + Len(sep))

Split(s, sep) == SplitFrom(s, sep, 1)

\* str.split(sep, 1): at most one split, at the first occurrence
Split1(s, sep) ==
    LET i == Find(s, sep, 1)
    IN  IF i = 0 THEN << s >>
        ELSE << SubSeq(s, 1, i - 1), SubSeq(s, i + Len(sep), Len(s)) >>

\* sep.join(parts)
RECURSIVE Join(_, _)
Join(parts, sep) ==
    IF Len(parts) = 0 THEN << >>
    ELSE IF Len(parts) = 1 THEN parts[1]
    ELSE parts[1] \o sep \o Join(Tail(parts), sep)

Whitespace == {" ", "\n", "\t"}

RECURSIVE LStrip(_)
LStrip(s) ==
    IF Len(s) > 0 /\ s[1] \in Whitespace THEN LStrip(Tail(s)) ELSE s

RECURSIVE RStrip(_)
RStrip(s) ==
    IF Len(s) > 0 /\ s[Len(s)] \in Whitespace
    THEN RStrip(SubSeq(s, 1, Len(s) - 1)) ELSE s

\* str.strip()
Strip(s) == RStrip(LStrip(s))

\* s[:n]
Prefix(s, n) == SubSeq(s, 1, IF Len(s) < n THEN Len(s) ELSE n)

Digit(d) == CASE d = 0 -> "0" [] d = 1 -> "1" [] d = 2 -> "2" [] d = 3 -> "3"
              [] d = 4 -> "4" [] d = 5 -> "5" [] d = 6 -> "6" [] d = 7 -> "7"
              [] d = 8 -> "8" [] d = 9 -> "9"

\* str(n) for n >= 0: the decimal digits
RECURSIVE IntToStr(_)
IntToStr(n) ==
    IF n < 10 THEN << Digit(n) >>
    ELSE IntToStr(n \div 10) \o << Digit(n % 10) >>

\* all sequences over S of length at most n
RECURSIVE SeqsUpTo(_, _)
SeqsUpTo(S, n) ==
    IF n = 0 THEN { << >> }
    ELSE LET shorter == SeqsUpTo(S, n - 1)
         IN  shorter \cup { Append(q, x) : q \in shorter, x \in S }

\* Optional[T]: None is << >>, a value v is << v >>
None == << >>
Some(v) == << v >>

(***************************************************************************)
(* SVGToD2Converter._simple_d2_to_ascii (the textual renderer)             *)
(***************************************************************************)

NL == << "\n" >>
Arrow == << "-", ">" >>
Colon == << ":" >>
Hash == << "#" >>
\* the Markdown fence, three backquotes
Fence == << "~~~" >>
TruncLen == 20
Ellipsis == << ".", ".", "." >>

\* DictSet as dict.setdefault would do it: a repeated key keeps its first value
DictSet_KeepFirst(d, k, v) ==
    IF \E j \in 1..Len(d) : d[j][1] = k THEN d ELSE Append(d, << k, v >>)

\* nodes[node_name] = node_desc on a dict kept as a sequence of <<key, value>>
\* in insertion order: an existing key keeps its place and takes the new value
DictSet(d, k, v) ==
    IF \E j \in 1..Len(d) : d[j][1] = k
    THEN [ j \in 1..Len(d) |-> IF d[j][1] = k THEN << k, v >> ELSE d[j] ]
    ELSE Append(d, << k, v >>)

\* ParseLine with line.split("->", 1): a line with several edge tokens is
\* split at the first one and recorded
ParseLine_SplitFirst(st, raw) ==
    LET line == Strip(raw)
    IN  IF line = << >> \/ StartsWith(line, Hash) THEN st
        ELSE IF Contains(line, Arrow)
        THEN LET parts == Split1(line, Arrow)
             IN  [ st EXCEPT !.connections =
                       Append(@, << Strip(parts[1]), Strip(parts[2]) >>) ]
        ELSE IF Contains(line, Colon)
        THEN LET parts == Split1(line, Colon)
             IN  [ st EXCEPT !.nodes =
                       DictSet(@, Strip(parts[1]), Strip(parts[2])) ]
        ELSE st

\* one iteration of the parsing loop over [nodes, connections]
ParseLine(st, raw) ==
    LET line == Strip(raw)
    IN  IF line = << >> \/ StartsWith(line, Hash) THEN st
        ELSE IF Contains(line, Arrow)
        THEN LET parts == Split(line, Arrow)
             IN  IF Len(parts) = 2
                 THEN [ st EXCEPT !.connections =
                            Append(@, << Strip(parts[1]), Strip(parts[2]) >>) ]
                 ELSE st
        ELSE IF Contains(line, Colon)
        THEN LET parts == Split1(line, Colon)
             IN  IF Len(parts) = 2
                 THEN [ st EXCEPT !.nodes =
                            DictSet(@, Strip(parts[1]), Strip(parts[2])) ]
                 ELSE st
        ELSE st

\* Truncate with the test len(node_desc) >= 20
Truncate_Inclusive(desc) ==
    IF Len(desc) >= TruncLen THEN Prefix(desc, TruncLen) \o Ellipsis ELSE desc

\* node_desc[:20] + "..." if len(node_desc) > 20 else node_desc
Truncate(desc) ==
    IF Len(desc) > TruncLen THEN Prefix(desc, TruncLen) \o Ellipsis ELSE desc

\* the four lines appended for one node
NodeBox(node) ==
    << << "+- " >> \o node[1] \o << " -+" >>,
       << "| " >> \o Truncate(node[2]) \o << " |" >>,
       << "+---------+" >>,
       << "    |" >> >>

RECURSIVE NodeBoxes(_)
NodeBoxes(ns) ==
    IF Len(ns) = 0 THEN << >>
    ELSE NodeBox(Head(ns)) \o NodeBoxes(Tail(ns))

ConnectorMarker == << "    v" >>

\* f"{src} --> {dest}"
ConnectionLine(c) == c[1] \o << " ", "-", "-", ">", " " >> \o c[2]

\* ConnectionLines without the "if connections" test
ConnectionLines_NoTest(cs) ==
    << ConnectorMarker >> \o [ k \in 1..Len(cs) |-> ConnectionLine(cs[k]) ]

ConnectionLines(cs) ==
    IF Len(cs) = 0 THEN << >>
    ELSE << ConnectorMarker >>
         \o [ k \in 1..Len(cs) |-> ConnectionLine(cs[k]) ]

\* the rendering pass: ascii_lines
AsciiLines(ns, cs) ==
    << Fence >> \o NodeBoxes(ns) \o ConnectionLines(cs) \o << Fence >>

\* a rendering pass that resolves each endpoint in nodes (nodes[src]): a
\* KeyError escapes for an edge to an undeclared node
RenderOutcome_Resolve(ns, cs) ==
    IF \A k \in 1..Len(cs) : \A e \in 1..2 : \E j \in 1..Len(ns) : ns[j][1] = cs[k][e]
    THEN [ value |-> Some(Join(AsciiLines(ns, cs), NL)), exc |-> None ]
    ELSE [ value |-> None, exc |-> Some("KeyError") ]

\* what the rendering pass hands back: the joined text, and no exception
RenderOutcome(ns, cs) ==
    [ value |-> Some(Join(AsciiLines(ns, cs), NL)), exc |-> None ]

RECURSIVE ParseLines(_, _)
ParseLines(st, ls) ==
    IF Len(ls) = 0 THEN st
    ELSE ParseLines(ParseLine(st, Head(ls)), Tail(ls))

EmptyGraph == [ nodes |-> << >>, connections |-> << >> ]

\* the whole function, as convert_svg_to_ascii calls it
SimpleD2ToAscii(d2) ==
    LET st == ParseLines(EmptyGraph, Split(d2, NL))
    IN  Join(AsciiLines(st.nodes, st.connections), NL)

(***************************************************************************)
(* SVGToD2Converter._call_llm_api, _extract_d2_code, _d2_to_ascii and      *)
(* convert_svg_to_ascii                                                    *)
(***************************************************************************)

StatusOK == 200

\* _call_llm_api that tries again after a failure
CallLlmApi_Retry(ep) ==
    IF ep.kind = "status" /\ ep.status = StatusOK /\ ep.content # None
    THEN [ response |-> ep.content, sent |-> 1 ]
    ELSE [ response |-> None, sent |-> 2 ]

\* _call_llm_api under endpoint behaviour ep: one requests.post; an exception
\* of the post (unreachable, timeout) or of reading the body (no
\* choices[0].message.content) is caught and gives None, so does a status
\* other than 200
CallLlmApi(ep) ==
    IF ep.kind = "status" /\ ep.status = StatusOK /\ ep.content # None
    THEN [ response |-> ep.content, sent |-> 1 ]
    ELSE [ response |-> None, sent |-> 1 ]

\* Python truth of an Optional[str]: neither None nor ""
Truthy(opt) == opt # None /\ opt[1] # << >>

\* re.findall(r"[fence](?:d2)?\n(.*?)\n[fence]", s, re.DOTALL) from index from:
\* the first match group, None when nothing matches
RECURSIVE FirstFenceMatch(_, _)
FirstFenceMatch(s, from) ==
    LET f == Find(s, Fence, from)
    IN  IF f = 0 THEN None
        ELSE LET c == IF MatchAt(s, << "d2", "\n" >>, f + 1) THEN f + 3
                      ELSE IF MatchAt(s, NL, f + 1) THEN f + 2
                      ELSE 0
                 e == IF c = 0 THEN 0 ELSE Find(s, NL \o Fence, c)
             IN  IF e # 0 THEN Some(SubSeq(s, c, e - 1))
                 ELSE FirstFenceMatch(s, f + 1)

\* the fallback of _extract_d2_code: every line from the first one that holds
\* a ":" and starts with neither "#" nor "**"
IsD2Start(line) ==
    /\ Contains(line, Colon)
    /\ ~StartsWith(line, Hash)
    /\ ~StartsWith(line, << "*", "*" >>)

FallbackExtract(s) ==
    LET ls == Split(s, NL)
        starts == { k \in 1..Len(ls) : IsD2Start(ls[k]) }
    IN  IF starts = {} THEN None
        ELSE LET k0 == CHOOSE k \in starts : \A j \in starts : k <= j
             IN  Some(Strip(Join(SubSeq(ls, k0, Len(ls)), NL)))

\* _extract_d2_code
ExtractD2Code(resp) ==
    IF resp = << >> THEN None
    ELSE LET m == FirstFenceMatch(resp, 1)
         IN  IF m # None THEN Some(Strip(m[1])) ELSE FallbackExtract(resp)

\* _d2_to_ascii under tool behaviour tool: None unless the d2 command is
\* available and exits with code 0
D2ToAscii(d2, tool) ==
    IF tool = "ok" THEN Some(SimpleD2ToAscii(d2)) ELSE None

\* _d2_to_ascii not reached
NoRun == [ procs |-> 0, created |-> {}, left |-> {} ]

\* the side effects of _d2_to_ascii under behaviour tool: the processes
\* started by subprocess.run, the temporary files created, the ones the
\* finally block leaves on disk.  The finally block removes the files whose
\* path variable is bound; d2_file_path is bound after d2_file.write, so a
\* write that raises leaves the .d2 file, created with delete=False, behind
D2Run(tool) ==
    [ procs |-> IF tool \in { "ok", "nonzero", "timeout" } THEN 1 ELSE 0,
      created |-> IF tool \in { "unavailable", "create_error" } THEN {}
                  ELSE IF tool \in { "write_error", "svg_create_error" }
                  THEN { "d2" }
                  ELSE { "d2", "svg" },
      left |-> IF tool = "write_error" THEN { "d2" } ELSE {} ]

ErrNoResponse == << "Failed to get response from LLM API" >>
ErrNoD2 == << "Failed to extract D2 code from LLM response" >>

EmptyResult ==
    [ success |-> FALSE, d2_code |-> << >>, ascii_diagram |-> << >>, error |-> << >> ]

\* convert_svg_to_ascii after step 1 failed
ResultNoResponse == [ EmptyResult EXCEPT !.error = ErrNoResponse ]

\* convert_svg_to_ascii after step 2 failed
ResultNoD2 == [ EmptyResult EXCEPT !.error = ErrNoD2 ]

\* step 3 without the fallback: no diagram unless the d2 command succeeded
ResultRendered_ToolOnly(d2, tool) ==
    LET a == D2ToAscii(d2, tool)
    IN  IF Truthy(a)
        THEN [ EmptyResult EXCEPT !.d2_code = d2, !.ascii_diagram = a[1],
                                  !.success = TRUE ]
        ELSE [ EmptyResult EXCEPT !.d2_code = d2 ]

\* convert_svg_to_ascii, step 3
ResultRendered(d2, tool) ==
    LET a == D2ToAscii(d2, tool)
    IN  [ EmptyResult EXCEPT
            !.d2_code = d2,
            !.ascii_diagram = IF Truthy(a) THEN a[1] ELSE SimpleD2ToAscii(d2),
            !.success = TRUE ]

\* the whole call: the result dict and the number of requests sent
ConvertSvgToAscii(ep, tool) ==
    LET call == CallLlmApi(ep)
        d2 == IF Truthy(call.response) THEN ExtractD2Code(call.response[1]) ELSE None
        run == IF Truthy(d2) THEN D2Run(tool) ELSE NoRun
    IN  [ sent |-> call.sent,
          procs |-> run.procs, created |-> run.created, left |-> run.left,
          result |-> IF ~Truthy(call.response) THEN ResultNoResponse
                     ELSE IF ~Truthy(d2) THEN ResultNoD2
                     ELSE ResultRendered(d2[1], tool) ]

(***************************************************************************)
(* ContentCleaner.extract_and_convert_svgs and insert_svg_replacements     *)
(***************************************************************************)

\* the opening tag of a flowchart svg, its closing tag, another svg tag
SvgOpen == << "<svg aria-roledescription=\"flowchart-v2\">" >>
SvgClose == << "</svg>" >>
PlainSvgOpen == << "<svg>" >>

Sentinel == << "SVG_PLACEHOLDER" >>

\* a marker without its closing " -->"
Marker_NoTerminator(n) ==
    << "<!-- " >> \o Sentinel \o << "_" >> \o IntToStr(n)

\* f"<!-- SVG_PLACEHOLDER_{placeholder_counter} -->"
Marker(n) ==
    << "<!-- " >> \o Sentinel \o << "_" >> \o IntToStr(n) \o << " ", "-", "-", ">" >>

\* the next match of svg_pattern at or after from: << first, last >> index,
\* None when there is none (the flowchart opening tag, then lazily to the
\* first closing tag)
NextSvgMatch(s, from) ==
    LET a == Find(s, SvgOpen, from)
        b == IF a = 0 THEN 0 ELSE Find(s, SvgClose, a + 1)
    IN  IF b = 0 THEN None ELSE Some(<< a, b >>)

\* len(list(re.finditer(svg_pattern, html_content)))
RECURSIVE CountSvgMatches(_, _)
CountSvgMatches(s, from) ==
    LET m == NextSvgMatch(s, from)
    IN  IF m = None THEN 0 ELSE 1 + CountSvgMatches(s, m[1][2] + 1)

\* re.sub with only the return values of replace_svg kept
SubStep_DropOutside(out, s, pos, m, replacement) == out \o replacement

\* re.sub for one match m = << first, last >> found scanning from pos: the
\* text between pos and the match is copied to out, then the return value of
\* replace_svg
SubStep(out, s, pos, m, replacement) ==
    out \o SubSeq(s, pos, m[1] - 1) \o replacement

\* the two fallback blocks of replace_svg
FailedBlock(error_msg) ==
    Fence \o NL \o << "[Flowchart conversion failed: " >> \o error_msg
        \o << "]" >> \o NL \o Fence

ErrorBlock(msg) ==
    Fence \o NL \o << "[Flowchart conversion error: " >> \o msg
        \o << "]" >> \o NL \o Fence

\* replace_svg without its try/except: an exception of the converter escapes
ReplaceSvgStep_NoCatch(mapping, counter, o) ==
    IF o.kind = "raises"
    THEN [ mapping |-> mapping, counter |-> counter, exc |-> Some(o.msg) ]
    ELSE [ mapping |-> DictSet(mapping, Marker(counter),
                               IF o.result.success THEN o.result.ascii_diagram
                               ELSE FailedBlock(o.result.error)),
           counter |-> counter + 1, exc |-> None ]

\* the body of replace_svg for converter outcome o: the entry stored under the
\* placeholder, the counter after it, the exception that escapes (none)
ReplaceSvgStep(mapping, counter, o) ==
    [ mapping |-> DictSet(mapping, Marker(counter),
                          IF o.kind = "raises" THEN ErrorBlock(o.msg)
                          ELSE IF o.result.success THEN o.result.ascii_diagram
                          ELSE FailedBlock(o.result.error)),
      counter |-> counter + 1,
      exc |-> None ]

\* the loop of insert_svg_replacements with str.replace(placeholder, text, 1)
RECURSIVE ApplyReplacements_FirstOnly(_, _)
ApplyReplacements_FirstOnly(md, mapping) ==
    IF Len(mapping) = 0 THEN md
    ELSE LET k == Find(md, Head(mapping)[1], 1)
         IN  ApplyReplacements_FirstOnly(
                 IF k = 0 THEN md
                 ELSE SubSeq(md, 1, k - 1) \o Head(mapping)[2]
                          \o SubSeq(md, k + Len(Head(mapping)[1]), Len(md)),
                 Tail(mapping))

\* the loop of insert_svg_replacements over svg_replacements.items()
RECURSIVE ApplyReplacements(_, _)
ApplyReplacements(md, mapping) ==
    IF Len(mapping) = 0 THEN md
    ELSE ApplyReplacements(
             IF Count(md, Head(mapping)[1]) = 0 THEN md
             ELSE Replace(md, Head(mapping)[1], Head(mapping)[2]),
             Tail(mapping))

\* insert_svg_replacements
InsertSvgReplacements(md, mapping) ==
    IF Len(mapping) = 0 THEN md ELSE ApplyReplacements(md, mapping)

\* the text after each iteration of the loop of insert_svg_replacements
RECURSIVE ApplyTrace(_, _)
ApplyTrace(md, mapping) ==
    IF Len(mapping) = 0 THEN << >>
    ELSE LET after == IF Count(md, Head(mapping)[1]) = 0 THEN md
                      ELSE Replace(md, Head(mapping)[1], Head(mapping)[2])
         IN  << after >> \o ApplyTrace(after, Tail(mapping))

\* the logger.warning calls of the loop, in order
RECURSIVE LoopWarnings(_, _)
LoopWarnings(md, mapping) ==
    IF Len(mapping) = 0 THEN << >>
    ELSE LET placeholder == Head(mapping)[1]
             after == IF Count(md, placeholder) = 0 THEN md
                      ELSE Replace(md, placeholder, Head(mapping)[2])
         IN  (IF Count(md, placeholder) = 0
              THEN << << "not found", placeholder >> >>
              ELSE IF Count(after, placeholder) > 0
              THEN << << "remaining", placeholder >> >>
              ELSE << >>)
                 \o LoopWarnings(after, Tail(mapping))

\* the warning after the loop: a line of the final text holds the sentinel
FinalWarnings(md) ==
    IF Contains(md, Sentinel) THEN << << "unreplaced", Sentinel >> >> ELSE << >>

\* insert_svg_replacements raising ValueError for a placeholder that is not
\* in the text (str.index in place of the count test)
InsertOutcome_Strict(md, mapping) ==
    IF \E w \in 1..Len(LoopWarnings(md, mapping)) :
           LoopWarnings(md, mapping)[w][1] = "not found"
    THEN [ value |-> None, exc |-> Some("ValueError"), steps |-> << >>,
           warnings |-> << >> ]
    ELSE [ value |-> Some(InsertSvgReplacements(md, mapping)), exc |-> None,
           steps |-> ApplyTrace(md, mapping),
           warnings |-> LoopWarnings(md, mapping) ]

\* what a call of insert_svg_replacements hands back and logs: the returned
\* text, the exception that escapes (none), the text after each entry, the
\* warnings
InsertOutcome(md, mapping) ==
    [ value |-> Some(InsertSvgReplacements(md, mapping)),
      exc |-> None,
      steps |-> ApplyTrace(md, mapping),
      warnings |-> IF Len(mapping) = 0 THEN << >>
                   ELSE LoopWarnings(md, mapping)
                            \o FinalWarnings(ApplyReplacements(md, mapping)) ]

(***************************************************************************)
(* The renderer as a state machine: one step per iteration of its parsing  *)
(* loop, then the rendering pass.                                          *)
(***************************************************************************)

MaxD2Lines == 3

\* description lines the inputs are built from
D2LineSet ==
    { << "A", ":", " ", "p" >>,                      \* a node
      << "A", ":", "q" >>,                           \* the same name again
      << "B", ":", "r", ":", "s" >>,                 \* two separators
      << "A", " ", "-", ">", " ", "B" >>,            \* an edge
      << "A", "-", ">", "B", "-", ">", "C" >>,       \* two edge tokens
      << " ", "#", "A", ":", "-", ">" >>,            \* a comment
      << " " >>,                                     \* a blank line
      << "z", "z" >>,                                \* noise
      << " ", "B", "-", ">", "Z", ":", "u", " " >> } \* an edge with a separator

ScenarioD2 ==
    << "S", "t", "a", "r", "t", ":", " ", "B", "e", "g", "i", "n", " ",
       "h", "e", "r", "e", "\n",
       "E", "n", "d", ":", " ", "F", "i", "n", "i", "s", "h", " ", "u", "p", "\n",
       "\n",
       "#", " ", "C", "o", "n", "n", "e", "c", "t", "i", "o", "n", "s", "\n",
       "S", "t", "a", "r", "t", " ", "-", ">", " ", "E", "n", "d" >>

\* a description of 21 characters, one of exactly 20
LongD2 ==
    << "L", ":", " ", "1", "2", "3", "4", "5", "6", "7", "8", "9", "0",
       "1", "2", "3", "4", "5", "6", "7", "8", "9", "0", "1", "\n",
       "M", ":", "1", "2", "3", "4", "5", "6", "7", "8", "9", "0",
       "1", "2", "3", "4", "5", "6", "7", "8", "9", "0" >>

D2Inputs ==
    { Join(ls, NL) : ls \in SeqsUpTo(D2LineSet, MaxD2Lines) }
        \cup { ScenarioD2, LongD2 }

RenderIdle ==
    /\ d2_content = << >> /\ lines = << >> /\ line_i = 0
    /\ nodes = << >> /\ connections = << >>
    /\ ascii_out = None /\ render_exc = None /\ rpc = "idle"

ConvertIdle ==
    /\ endpoint = [ kind |-> "none" ] /\ d2_tool = "unavailable"
    /\ llm_response = None /\ d2_code = None /\ result = None
    /\ requests_sent = 0 /\ convert_exc = None
    /\ processes_started = 0 /\ temp_created = {} /\ temp_left = {}
    /\ cpc = "idle"

PipelineIdle ==
    /\ html_content = << >> /\ scan_pos = 1 /\ modified_html = << >>
    /\ svg_replacements = << >> /\ placeholder_counter = 0
    /\ outcomes = << >> /\ extract_exc = None
    /\ markdown_content = << >> /\ final_markdown = None
    /\ splice_steps = << >> /\ splice_warnings = << >> /\ splice_exc = None
    /\ ppc = "idle"

ScrapeIdle ==
    /\ scraper = "none" /\ save_files = FALSE /\ start = "none"
    /\ nav_items = << >> /\ page_i = 0 /\ scraped_pages = << >>
    /\ saved = << >> /\ events = << >> /\ returned = None
    /\ scrape_exc = None /\ spc = "idle"

DocsIdle == documents = << >> /\ call_results = << >> /\ dpc = "idle"

\* no call in progress anywhere
\* result = {'content': '', 'title': '', 'success': False}
NewResult == [ content |-> << >>, title |-> << >>, success |-> FALSE ]

PageIdle ==
    /\ strip_navigation = TRUE /\ page_in = [ html_empty |-> TRUE ]
    /\ translator = "ok" /\ main_content = None /\ page_title = None
    /\ page_markdown = << >> /\ calls = << >>
    /\ convert_result = NewResult /\ page_exc = None /\ gpc = "idle"

CleanerIdle ==
    /\ cleaner = [ svg_converter |-> None ] /\ cleaner_html = << >>
    /\ cleaner_out = None /\ npc = "idle"
FilenameIdle == filename_in = << >> /\ filename_out = None /\ fpc = "idle"
UrlIdle ==
    url_in = << >> /\ url_obj = None /\ url_props = None /\ upc = "idle"
MarkersIdle ==
    /\ marker_md = << >> /\ map_a = << >> /\ map_b = << >>
    /\ out_a = None /\ out_b = None /\ out_again = None /\ mpc = "idle"
FilterIdle ==
    /\ filter_content = << >> /\ filter_lines = << >>
    /\ filtered_lines = << >> /\ in_code_block = FALSE
    /\ skip_css_block = FALSE /\ filter_i = 0 /\ filter_out = None
    /\ kpc = "idle"
LibrariesIdle ==
    /\ lib_urls = << >> /\ lib_i = 0 /\ lib_pages = << >>
    /\ lib_results = << >> /\ lib_returned = None /\ lpc = "idle"
BrowserIdle ==
    /\ pydoll = None /\ running = {} /\ started = 0
    /\ fetch_log = << >> /\ calls_made = 0 /\ bpc = "idle"

\* no call in progress in the page conversion, the utilities, the scraping of
\* several libraries and the browser scraper
RestIdle ==
    /\ PageIdle /\ CleanerIdle /\ FilenameIdle /\ UrlIdle /\ MarkersIdle
    /\ FilterIdle /\ LibrariesIdle /\ BrowserIdle

IdleAll ==
    /\ RenderIdle /\ ConvertIdle /\ PipelineIdle /\ ScrapeIdle /\ DocsIdle
    /\ RestIdle

InitRender ==
    /\ d2_content \in D2Inputs
    /\ lines = << >> /\ line_i = 0
    /\ nodes = << >> /\ connections = << >>
    /\ ascii_out = None /\ render_exc = None
    /\ rpc = "start"
    /\ ConvertIdle /\ PipelineIdle /\ ScrapeIdle /\ DocsIdle /\ RestIdle

\* lines = d2_content.split("\n"); nodes = {}; connections = []
SimpleD2Begin ==
    /\ rpc = "start"
    /\ lines' = Split(d2_content, NL)
    /\ line_i' = 1
    /\ nodes' = << >> /\ connections' = << >>
    /\ rpc' = "parse"
    /\ UNCHANGED << d2_content, ascii_out, render_exc, cvars, pvars, svars, dvars, xvars >>

\* one iteration of: for line_i, line in enumerate(lines)
SimpleD2ParseLine ==
    /\ rpc = "parse"
    /\ line_i <= Len(lines)
    /\ LET st == ParseLine([ nodes |-> nodes, connections |-> connections ],
                           lines[line_i])
       IN  /\ nodes' = st.nodes
           /\ connections' = st.connections
    /\ line_i' = line_i + 1
    /\ UNCHANGED << d2_content, lines, ascii_out, render_exc, rpc, cvars, pvars, svars, dvars, xvars >>

\* the rendering pass and the return
SimpleD2Return ==
    /\ rpc = "parse"
    /\ line_i > Len(lines)
    /\ LET r == RenderOutcome(nodes, connections)
       IN  /\ ascii_out' = r.value
           /\ render_exc' = r.exc
    /\ rpc' = "done"
    /\ UNCHANGED << d2_content, lines, line_i, nodes, connections, cvars, pvars, svars, dvars, xvars >>

NextRender == SimpleD2Begin \/ SimpleD2ParseLine \/ SimpleD2Return

SpecRender == InitRender /\ [][NextRender]_vars

(***************************************************************************)
(* convert_svg_to_ascii as a state machine: the request, the extraction,   *)
(* the rendering.                                                          *)
(***************************************************************************)

MaxRespLines == 4

\* lines the response bodies are built from
RespLineSet ==
    { Fence,                                  \* a bare fence
      << "~~~", "d2" >>,                      \* a fence tagged d2
      << "~~~", "svg" >>,                     \* a fence tagged otherwise
      << " ", "A", ":", "b" >>,               \* a node line
      << "p" >>,                              \* prose
      << "#", ":" >>,                         \* a heading with a separator
      << "*", "*", "N", ":" >>,               \* an emphasis line with a separator
      << >> }                                 \* an empty line

\* an svg block echoed before the d2 block
EchoBody ==
    Join(<< << "~~~", "svg" >>, << "<svg/>" >>, Fence, << "p" >>,
            << "~~~", "d2" >>, << "A", ":", "b" >>, Fence >>, NL)

RespBodies ==
    { Join(ls, NL) : ls \in SeqsUpTo(RespLineSet, MaxRespLines) } \cup { EchoBody }

Endpoints ==
    { [ kind |-> "unreachable" ], [ kind |-> "timeout" ],
      [ kind |-> "status", status |-> 500, content |-> None ],
      [ kind |-> "status", status |-> 200, content |-> None ] }
        \cup { [ kind |-> "status", status |-> 200, content |-> Some(b) ] :
                   b \in RespBodies }

\* how the d2 command and the temporary files behave during _d2_to_ascii
D2Tools ==
    { "unavailable", "ok", "nonzero", "timeout", "run_error",
      "create_error", "write_error", "svg_create_error" }

InitConvert ==
    /\ RenderIdle /\ PipelineIdle /\ ScrapeIdle /\ DocsIdle /\ RestIdle
    /\ endpoint \in Endpoints
    /\ d2_tool \in D2Tools
    /\ llm_response = None /\ d2_code = None /\ result = None
    /\ requests_sent = 0 /\ convert_exc = None
    /\ processes_started = 0 /\ temp_created = {} /\ temp_left = {}
    /\ cpc = "call"

\* step 1: llm_response = self._call_llm_api(svg_content)
ConvertCallLlm ==
    /\ cpc = "call"
    /\ LET call == CallLlmApi(endpoint)
       IN  /\ llm_response' = call.response
           /\ requests_sent' = requests_sent + call.sent
           /\ IF Truthy(call.response)
              THEN cpc' = "extract" /\ result' = result
              ELSE cpc' = "done" /\ result' = Some(ResultNoResponse)
    /\ UNCHANGED << endpoint, d2_tool, d2_code, convert_exc, processes_started,
                    temp_created, temp_left, rvars, pvars, svars, dvars, xvars >>

\* step 2: d2_code = self._extract_d2_code(llm_response)
ConvertExtractD2 ==
    /\ cpc = "extract"
    /\ d2_code' = ExtractD2Code(llm_response[1])
    /\ IF Truthy(d2_code')
       THEN cpc' = "render" /\ result' = result
       ELSE cpc' = "done" /\ result' = Some(ResultNoD2)
    /\ UNCHANGED << endpoint, d2_tool, llm_response, requests_sent, convert_exc,
                    processes_started, temp_created, temp_left, rvars, pvars, svars, dvars, xvars >>

\* step 3: _d2_to_ascii, else _simple_d2_to_ascii
ConvertRender ==
    /\ cpc = "render"
    /\ result' = Some(ResultRendered(d2_code[1], d2_tool))
    /\ processes_started' = processes_started + D2Run(d2_tool).procs
    /\ temp_created' = temp_created \cup D2Run(d2_tool).created
    /\ temp_left' = temp_left \cup D2Run(d2_tool).left
    /\ cpc' = "done"
    /\ UNCHANGED << endpoint, d2_tool, llm_response, d2_code, requests_sent,
                    convert_exc, rvars, pvars, svars, dvars, xvars >>

NextConvert == ConvertCallLlm \/ ConvertExtractD2 \/ ConvertRender

SpecConvert == InitConvert /\ [][NextConvert]_vars

(***************************************************************************)
(* One document through the pipeline: extraction (one step per fragment    *)
(* that re.sub hands to replace_svg), the HTML-to-Markdown translation,    *)
(* splicing.                                                               *)
(***************************************************************************)

MaxSegs == 5

\* the markup is a concatenation of these
Segments == { << "x" >>, SvgOpen, SvgClose, Marker(0) }

HtmlInputs == { Join(q, << >>) : q \in SeqsUpTo(Segments, MaxSegs) }

\* a response whose d2 block renders to a node box
GoodBody ==
    Join(<< << "~~~", "d2" >>, << "A", ":", "b" >>, Fence >>, NL)

\* a response whose d2 block holds the edge "<!-- SVG_PLACEHOLDER_1 -> x"
MarkerBody ==
    Join(<< << "~~~", "d2" >>,
            << "<!-- ", "SVG_PLACEHOLDER", "_", "1", " ", "-", ">", " ", "x" >>,
            Fence >>, NL)

PipelineEndpoints ==
    { [ kind |-> "unreachable" ],
      [ kind |-> "status", status |-> 500, content |-> None ],
      [ kind |-> "status", status |-> 200, content |-> Some(GoodBody) ],
      [ kind |-> "status", status |-> 200, content |-> Some(MarkerBody) ],
      [ kind |-> "status", status |-> 200, content |-> Some(<< "p" >>) ] }

\* the d2 command during the calls made by extraction: absent, or working
PipelineTools == { "unavailable", "ok" }

\* what self.svg_converter.convert_svg_to_ascii can do for one fragment: return
\* the result of SVGToD2Converter, or raise (a converter of another class)
ConverterOutcomes ==
    { [ kind |-> "returns", result |-> ConvertSvgToAscii(ep, tool).result,
        sent |-> ConvertSvgToAscii(ep, tool).sent,
        procs |-> ConvertSvgToAscii(ep, tool).procs,
        created |-> ConvertSvgToAscii(ep, tool).created,
        left |-> ConvertSvgToAscii(ep, tool).left, msg |-> << >> ] :
          ep \in PipelineEndpoints, tool \in PipelineTools }
        \cup { [ kind |-> "raises", result |-> EmptyResult, sent |-> 0,
                 procs |-> 0, created |-> {}, left |-> {},
                 msg |-> << "boom" >> ] }

\* md without the markers of the entries of mapping
RECURSIVE RemoveMarkers(_, _)
RemoveMarkers(md, mapping) ==
    IF Len(mapping) = 0 THEN md
    ELSE RemoveMarkers(Replace(md, Head(mapping)[1], << >>), Tail(mapping))

\* what the translation can hand to the splicer: the markup with every marker
\* passed through, with only the first marker kept, or with the first marker
\* lost
Translations(h, mapping) ==
    { h,
      IF Len(mapping) = 0 THEN h ELSE RemoveMarkers(h, Tail(mapping)),
      IF Len(mapping) = 0 THEN h ELSE RemoveMarkers(h, << Head(mapping) >>) }

Init ==
    /\ RenderIdle
    /\ ConvertIdle
    /\ ScrapeIdle /\ DocsIdle /\ RestIdle
    /\ html_content \in HtmlInputs
    /\ scan_pos = 1 /\ modified_html = << >>
    /\ svg_replacements = << >> /\ placeholder_counter = 0
    /\ outcomes = << >> /\ extract_exc = None
    /\ markdown_content = << >> /\ final_markdown = None
    /\ splice_steps = << >> /\ splice_warnings = << >> /\ splice_exc = None
    /\ ppc = "extract"

\* re.sub calls replace_svg for the next match
ReplaceSvg ==
    /\ ppc = "extract"
    /\ NextSvgMatch(html_content, scan_pos) # None
    /\ \E o \in ConverterOutcomes :
          LET m == NextSvgMatch(html_content, scan_pos)[1]
              step == ReplaceSvgStep(svg_replacements, placeholder_counter, o)
          IN  /\ outcomes' = Append(outcomes, o)
              /\ requests_sent' = requests_sent + o.sent
              /\ processes_started' = processes_started + o.procs
              /\ temp_created' = temp_created \cup o.created
              /\ temp_left' = temp_left \cup o.left
              /\ extract_exc' = step.exc
              /\ svg_replacements' = step.mapping
              /\ placeholder_counter' = step.counter
              /\ IF step.exc # None
                 THEN /\ ppc' = "aborted"
                      /\ UNCHANGED << modified_html, scan_pos >>
                 ELSE /\ ppc' = ppc
                      /\ modified_html' =
                             SubStep(modified_html, html_content, scan_pos, m,
                                     Marker(placeholder_counter))
                      /\ scan_pos' = m[2] + 1
    /\ UNCHANGED << html_content, markdown_content, final_markdown,
                    splice_steps, splice_warnings, splice_exc >>
    /\ UNCHANGED << endpoint, d2_tool, llm_response, d2_code, result,
                    convert_exc, cpc, rvars, svars, dvars, xvars >>

\* re.sub finds no further match and returns; the function returns
FinishExtract ==
    /\ ppc = "extract"
    /\ NextSvgMatch(html_content, scan_pos) = None
    /\ modified_html' =
           modified_html \o SubSeq(html_content, scan_pos, Len(html_content))
    /\ ppc' = "translate"
    /\ UNCHANGED << html_content, scan_pos, svg_replacements,
                    placeholder_counter, outcomes, extract_exc,
                    markdown_content, final_markdown,
                    splice_steps, splice_warnings, splice_exc, rvars, cvars, svars, dvars, xvars >>

\* the HTML-to-Markdown translation of the marker-bearing markup
Translate ==
    /\ ppc = "translate"
    /\ markdown_content' \in Translations(modified_html, svg_replacements)
    /\ ppc' = "splice"
    /\ UNCHANGED << html_content, scan_pos, modified_html, svg_replacements,
                    placeholder_counter, outcomes, extract_exc,
                    final_markdown, splice_steps, splice_warnings, splice_exc,
                    rvars, cvars, svars, dvars, xvars >>

\* insert_svg_replacements(markdown_content, svg_replacements)
Splice ==
    /\ ppc = "splice"
    /\ LET out == InsertOutcome(markdown_content, svg_replacements)
       IN  /\ final_markdown' = out.value
           /\ splice_exc' = out.exc
           /\ splice_steps' = out.steps
           /\ splice_warnings' = out.warnings
    /\ ppc' = "done"
    /\ UNCHANGED << html_content, scan_pos, modified_html, svg_replacements,
                    placeholder_counter, outcomes, extract_exc,
                    markdown_content, rvars, cvars, svars, dvars, xvars >>

Next == ReplaceSvg \/ FinishExtract \/ Translate \/ Splice

Spec == Init /\ [][Next]_vars

(***************************************************************************)
(* Claims about the renderer (checked under SpecRender)                    *)
(***************************************************************************)

\* a line the parsing loop does not skip as blank or comment
IsContentLine(raw) ==
    LET l == Strip(raw) IN l # << >> /\ ~StartsWith(l, Hash)

IsEdgeLine(raw) == IsContentLine(raw) /\ Contains(Strip(raw), Arrow)

IsNodeLine(raw) ==
    IsContentLine(raw) /\ ~Contains(Strip(raw), Arrow) /\ Contains(Strip(raw), Colon)

\* the two sides of the first occurrence of sep in raw, both trimmed
SidesOfFirst(raw, sep) ==
    LET l == Strip(raw)
        k == Find(l, sep, 1)
    IN  << Strip(SubSeq(l, 1, k - 1)), Strip(SubSeq(l, k + Len(sep), Len(l))) >>

AtLine == rpc = "parse" /\ line_i <= Len(lines)

\* C7 as the spec states it: every non-blank, non-comment line containing the
\* edge token is recorded as exactly one edge, split on the first token and
\* trimmed, also when the line holds two or more tokens.
C7_EveryEdgeLineRecorded ==
    [][ (AtLine /\ IsEdgeLine(lines[line_i]))
            => connections' = Append(connections, SidesOfFirst(lines[line_i], Arrow))
      ]_vars

\* C7 amended: a non-blank, non-comment line containing exactly one edge token
\* is recorded as exactly one edge (split at the token, both sides trimmed); a
\* line with two or more edge tokens records no edge and no node.
C7_SingleTokenEdgeLineRecorded ==
    [][ (AtLine /\ IsEdgeLine(lines[line_i]))
            => /\ nodes' = nodes
               /\ IF Count(Strip(lines[line_i]), Arrow) = 1
                  THEN connections' =
                           Append(connections, SidesOfFirst(lines[line_i], Arrow))
                  ELSE connections' = connections
      ]_vars

C7_Witness ==
    /\ rpc = "parse" /\ line_i = 3
    /\ IsEdgeLine(lines[1]) /\ Count(Strip(lines[1]), Arrow) = 1
    /\ IsEdgeLine(lines[2]) /\ Count(Strip(lines[2]), Arrow) >= 2
    /\ Len(connections) = 1

\* the indices of the node-declaring lines, of the first declaration of each
\* name, and the last declaration of the name declared at line k
DeclIdx == { k \in 1..Len(lines) : IsNodeLine(lines[k]) }
NameAt(k) == SidesOfFirst(lines[k], Colon)[1]
DescAt(k) == SidesOfFirst(lines[k], Colon)[2]
FirstDecl == { k \in DeclIdx : \A j \in DeclIdx : j < k => NameAt(j) # NameAt(k) }
LastDeclOf(k) ==
    CHOOSE j \in DeclIdx :
        /\ NameAt(j) = NameAt(k)
        /\ \A m \in DeclIdx : NameAt(m) = NameAt(k) => m <= j
RankOf(k) == Cardinality({ j \in FirstDecl : j < k })

\* the lines of the returned text
OutLines == Split(ascii_out[1], NL)

IsBoxTop(l) == Len(l) > 0 /\ l[1] = "+- "

\* C8: a non-comment line with a separator and no edge token declares a node
\* (split on the first separator, trimmed); the rendering holds exactly one box
\* per distinct name, in order of first declaration, showing the description
\* of the last declaration of that name, whatever the edges are.
C8_OneBoxPerNodeInDeclarationOrder ==
    rpc = "done" =>
        /\ Cardinality({ k \in 1..Len(OutLines) : IsBoxTop(OutLines[k]) })
               = Cardinality(FirstDecl)
        /\ \A k \in FirstDecl :
              LET at == 1 + 4 * RankOf(k)
              IN  /\ OutLines[at + 1] = << "+- " >> \o NameAt(k) \o << " -+" >>
                  /\ OutLines[at + 2] =
                         << "| " >> \o Truncate(DescAt(LastDeclOf(k))) \o << " |" >>
                  /\ OutLines[at + 3] = << "+---------+" >>
                  /\ OutLines[at + 4] = << "    |" >>

C8_Witness ==
    /\ rpc = "done"
    /\ Cardinality(DeclIdx) = 3 /\ Cardinality(FirstDecl) = 2
    /\ \E k \in FirstDecl : LastDeclOf(k) # k /\ DescAt(LastDeclOf(k)) # DescAt(k)
    /\ connections = << >>

NothingParsed ==
    \A k \in 1..Len(lines) :
        /\ ~IsNodeLine(lines[k])
        /\ ~(IsEdgeLine(lines[k]) /\ Count(Strip(lines[k]), Arrow) = 1)

EmptyBlock == Fence \o NL \o Fence

\* C9: for every description text the renderer returns a text and no exception
\* escapes (edges to undeclared nodes and duplicate names included); when
\* nothing was parsed the text is the empty fenced block.
C9_RendererAlwaysReturnsText ==
    rpc = "done" =>
        /\ render_exc = None
        /\ ascii_out # None
        /\ NothingParsed => ascii_out[1] = EmptyBlock

C9_Witness ==
    /\ rpc = "done"
    /\ \E k \in 1..Len(connections) :
          \A j \in 1..Len(nodes) : nodes[j][1] # connections[k][2]
    /\ Cardinality(DeclIdx) > Cardinality(FirstDecl)
    /\ ascii_out # None

ScenarioOut ==
    << Fence,
       << "+- ", "S", "t", "a", "r", "t", " -+" >>,
       << "| ", "B", "e", "g", "i", "n", " ", "h", "e", "r", "e", " |" >>,
       << "+---------+" >>,
       << "    |" >>,
       << "+- ", "E", "n", "d", " -+" >>,
       << "| ", "F", "i", "n", "i", "s", "h", " ", "u", "p", " |" >>,
       << "+---------+" >>,
       << "    |" >>,
       ConnectorMarker,
       << "S", "t", "a", "r", "t", " ", "-", "-", ">", " ", "E", "n", "d" >>,
       Fence >>

\* C10: the output is enclosed by a fence line at each end; after the node
\* boxes it holds the connector marker line iff an edge was recorded, followed
\* by one line "source --> destination" per recorded edge, in recorded order,
\* endpoints verbatim; the Start/End scenario renders as the spec says.
C10_FencedWithEdgeList ==
    rpc = "done" =>
        LET n == 4 * Len(nodes)
            m == Len(connections)
        IN  /\ OutLines[1] = Fence
            /\ OutLines[Len(OutLines)] = Fence
            /\ Len(OutLines) = 2 + n + (IF m = 0 THEN 0 ELSE 1 + m)
            /\ (\E k \in 1..Len(OutLines) : OutLines[k] = ConnectorMarker) <=> m > 0
            /\ m > 0 => OutLines[n + 2] = ConnectorMarker
            /\ \A k \in 1..m :
                  OutLines[n + 2 + k] =
                      connections[k][1] \o << " ", "-", "-", ">", " " >>
                          \o connections[k][2]
            /\ d2_content = ScenarioD2 => OutLines = ScenarioOut

C10_Witness ==
    /\ rpc = "done"
    /\ d2_content = ScenarioD2
    /\ Len(nodes) = 2 /\ Len(connections) = 1

\* C11: in the box of a node, a description longer than 20 characters is shown
\* as its first 20 characters followed by "..."; a description of 20
\* characters or fewer is shown unmodified.
C11_DescriptionTruncatedAtTwenty ==
    rpc = "done" =>
        \A k \in FirstDecl :
            LET desc  == DescAt(LastDeclOf(k))
                shown == OutLines[3 + 4 * RankOf(k)]
            IN  IF Len(desc) > 20
                THEN shown = << "| " >> \o SubSeq(desc, 1, 20)
                                 \o << ".", ".", "." >> \o << " |" >>
                ELSE shown = << "| " >> \o desc \o << " |" >>

C11_Witness ==
    /\ rpc = "done"
    /\ \E k \in FirstDecl : Len(DescAt(k)) = 21
    /\ \E k \in FirstDecl : Len(DescAt(k)) = 20
    /\ Len(OutLines) = 10

(***************************************************************************)
(* Claims about extraction and splicing (checked under Spec)               *)
(***************************************************************************)

Extracted == ppc \in { "translate", "splice", "done" }

\* C1 as the spec states it: for markup with N fragments extraction returns
\* exactly the N markers numbered 0..N-1 in discovery order, all distinct, and
\* each marker occurs exactly once in the returned markup.
C1_MarkersOnceEachInOrder ==
    Extracted =>
        LET n == CountSvgMatches(html_content, 1)
        IN  /\ Len(svg_replacements) = n
            /\ \A k \in 1..n :
                  /\ svg_replacements[k][1] = Marker(k - 1)
                  /\ Count(modified_html, Marker(k - 1)) = 1
                  /\ \A j \in 1..n : j # k => Marker(j - 1) # Marker(k - 1)
                  /\ k < n => Find(modified_html, Marker(k - 1), 1)
                                  < Find(modified_html, Marker(k), 1)

AllMarkersPresent ==
    \A k \in 1..Len(svg_replacements) :
        Count(markdown_content, svg_replacements[k][1]) > 0

\* md with the mapped text at each position a marker of mapping occupies and
\* every other piece unchanged
RECURSIVE SubstituteAt(_, _, _)
SubstituteAt(md, mapping, at) ==
    IF at > Len(md) THEN << >>
    ELSE LET hits == { k \in 1..Len(mapping) : MatchAt(md, mapping[k][1], at) }
         IN  IF hits = {} THEN << md[at] >> \o SubstituteAt(md, mapping, at + 1)
             ELSE LET k == CHOOSE h \in hits : TRUE
                  IN  mapping[k][2]
                          \o SubstituteAt(md, mapping, at + Len(mapping[k][1]))

Spliced == SubstituteAt(markdown_content, svg_replacements, 1)

\* C2 as the spec states it: markdown that holds every marker of the mapping
\* verbatim is returned with zero occurrences of the sentinel and exactly the
\* mapped text at each marker position, all other text unchanged.
C2_RoundTripNoSentinel ==
    (ppc = "done" /\ AllMarkersPresent) =>
        /\ Count(final_markdown[1], Sentinel) = 0
        /\ final_markdown[1] = Spliced

\* C2 amended: the same, provided the text so described (the mapped text at
\* each marker position, all other text unchanged) itself holds no occurrence
\* of the sentinel, that is, no mapped text brings the sentinel in and the
\* markdown holds it only inside the markers.
C2_RoundTripWhenSplicedTextHasNoSentinel ==
    (ppc = "done" /\ AllMarkersPresent /\ Count(Spliced, Sentinel) = 0) =>
        /\ Count(final_markdown[1], Sentinel) = 0
        /\ final_markdown[1] = Spliced

C2_Witness ==
    /\ ppc = "done"
    /\ Len(svg_replacements) = 2
    /\ AllMarkersPresent
    /\ Count(Spliced, Sentinel) = 0
    /\ final_markdown[1] # markdown_content
    /\ Count(markdown_content, Sentinel) = 2

\* a fenced block that carries the error description
IsErrorNotice(text, description) ==
    /\ StartsWith(text, Fence \o NL)
    /\ MatchAt(text, NL \o Fence, Len(text) - 1)
    /\ Contains(text, description)
    /\ description # << >>

\* C3: whatever the recovery of a fragment did (a result with success, a
\* result without, an exception), extraction goes on to the later fragments
\* and to its end, and the mapping holds exactly one entry per fragment, under
\* its marker: the rendered diagram on success, else a fenced error notice
\* carrying the error description.
C3_OneEntryPerFragmentWhateverTheOutcome ==
    /\ extract_exc = None
    /\ ppc # "aborted"
    /\ Len(svg_replacements) = Len(outcomes)
    /\ \A k \in 1..Len(outcomes) :
          /\ svg_replacements[k][1] = Marker(k - 1)
          /\ IF outcomes[k].kind = "raises"
             THEN IsErrorNotice(svg_replacements[k][2], outcomes[k].msg)
             ELSE IF outcomes[k].result.success
             THEN svg_replacements[k][2] = outcomes[k].result.ascii_diagram
             ELSE IsErrorNotice(svg_replacements[k][2], outcomes[k].result.error)
    /\ Extracted => Len(outcomes) = CountSvgMatches(html_content, 1)

C3_Witness ==
    /\ Extracted
    /\ Len(outcomes) = 2
    /\ outcomes[1].kind = "raises"
    /\ outcomes[2].kind = "returns" /\ outcomes[2].result.success
    /\ Len(svg_replacements) = 2

\* the text the loop of the splicer holds before entry k, after it
TextBefore(k) == IF k = 1 THEN markdown_content ELSE splice_steps[k - 1]
TextAfter(k) == splice_steps[k]

Warned(kind, what) ==
    \E w \in 1..Len(splice_warnings) : splice_warnings[w] = << kind, what >>

\* C12 as the spec states it: insert_svg_replacements never raises and always
\* returns text; for an entry whose marker has zero occurrences in the
\* markdown a warning is logged, and a sentinel surviving in the final text
\* produces a warning.
C12_AbsentOrSurvivingWarnsOnly ==
    ppc = "done" =>
        /\ splice_exc = None
        /\ final_markdown # None
        /\ \A k \in 1..Len(svg_replacements) :
              Count(markdown_content, svg_replacements[k][1]) = 0 =>
                  Warned("not found", svg_replacements[k][1])
        /\ Contains(final_markdown[1], Sentinel) => Warned("unreplaced", Sentinel)

\* C12 amended: insert_svg_replacements never raises and always returns text;
\* every entry of the mapping is gone through in order; an entry whose marker
\* has zero occurrences in the text as it stands when the entry is reached
\* leaves that text unchanged and logs a warning, any other entry puts its
\* mapped text at every occurrence of its marker; the text after the last entry
\* is returned; for a non-empty mapping a sentinel surviving in the returned
\* text produces a warning, and nothing else.
C12_EntryAbsentWhenReachedWarnsOnly ==
    ppc = "done" =>
        /\ splice_exc = None
        /\ final_markdown # None
        /\ Len(splice_steps) = Len(svg_replacements)
        /\ \A k \in 1..Len(svg_replacements) :
              IF Count(TextBefore(k), svg_replacements[k][1]) = 0
              THEN /\ TextAfter(k) = TextBefore(k)
                   /\ Warned("not found", svg_replacements[k][1])
              ELSE TextAfter(k) =
                       SubstituteAt(TextBefore(k), << svg_replacements[k] >>, 1)
        /\ final_markdown[1] = TextBefore(Len(svg_replacements) + 1)
        /\ (Len(svg_replacements) > 0 /\ Contains(final_markdown[1], Sentinel))
               => Warned("unreplaced", Sentinel)

C12_Witness ==
    /\ ppc = "done"
    /\ Len(svg_replacements) = 2
    /\ Count(markdown_content, svg_replacements[1][1]) = 0
    /\ Warned("not found", svg_replacements[1][1])
    /\ Count(markdown_content, svg_replacements[2][1]) = 1
    /\ TextAfter(2) # TextBefore(2)
    /\ final_markdown = Some(TextAfter(2))
    /\ splice_exc = None

\* the markup with the n-th and later recognized fragments (scanning from
\* from) each replaced by its marker, everything else as it is
RECURSIVE FragmentsReplaced(_, _, _)
FragmentsReplaced(s, from, n) ==
    LET m == NextSvgMatch(s, from)
    IN  IF m = None THEN SubSeq(s, from, Len(s))
        ELSE SubSeq(s, from, m[1][1] - 1) \o Marker(n)
                 \o FragmentsReplaced(s, m[1][2] + 1, n + 1)

\* C13: extraction changes only the recognized fragments: the markup outside
\* them is returned unchanged and in the same order; with zero fragments the
\* markup is returned unchanged with an empty mapping, and no error.
C13_OnlyFragmentsChange ==
    Extracted =>
        /\ extract_exc = None
        /\ modified_html = FragmentsReplaced(html_content, 1, 0)
        /\ CountSvgMatches(html_content, 1) = 0 =>
               /\ modified_html = html_content
               /\ svg_replacements = << >>

C13_Witness ==
    /\ Extracted
    /\ html_content = SvgOpen \o SvgClose \o << "x" >> \o SvgOpen \o SvgClose
    /\ modified_html = Marker(0) \o << "x" >> \o Marker(1)

\* C14 as the spec states it: extraction has no side effect beyond its
\* returned values: no request is sent to the endpoint and no external
\* process is started, for markup with any number of fragments.
C14_ExtractionSendsNothing ==
    ppc \in { "extract", "translate", "splice", "done" } =>
        /\ requests_sent = 0
        /\ processes_started = 0

(***************************************************************************)
(* Claims about convert_svg_to_ascii (checked under SpecConvert)           *)
(***************************************************************************)

EndpointFails ==
    \/ endpoint.kind \in { "unreachable", "timeout" }
    \/ endpoint.kind = "status" /\ endpoint.status # StatusOK

\* C4: when the endpoint is unreachable, times out or answers with a status
\* other than 200, convert_svg_to_ascii returns success=false with a non-empty
\* error, no exception escapes, and exactly one request was sent.
C4_EndpointFailureReportedOnce ==
    (cpc = "done" /\ EndpointFails) =>
        /\ result # None
        /\ result[1].success = FALSE
        /\ result[1].error # << >>
        /\ convert_exc = None
        /\ requests_sent = 1

C4_Witness ==
    /\ cpc = "done"
    /\ endpoint.kind = "status" /\ endpoint.status = 500
    /\ result # None /\ result[1].error = ErrNoResponse
    /\ requests_sent = 1

\* the fenced blocks of a response as Markdown pairs them: a fence line opens
\* a block, the next bare fence line closes it.  The content of the first
\* closed block whose opening fence is bare or tagged d2; None without one.
RECURSIVE FirstD2Block(_, _)
FirstD2Block(ls, k) ==
    IF k > Len(ls) THEN None
    ELSE IF ~StartsWith(ls[k], Fence) THEN FirstD2Block(ls, k + 1)
    ELSE LET closes == { j \in (k + 1)..Len(ls) : ls[j] = Fence }
         IN  IF closes = {} THEN None
             ELSE LET j == CHOOSE c \in closes : \A d \in closes : c <= d
                  IN  IF Tail(ls[k]) \in { << >>, << "d2" >> }
                      THEN Some(Join(SubSeq(ls, k + 1, j - 1), NL))
                      ELSE FirstD2Block(ls, j + 1)

ExtractionRan == cpc = "render" \/ (cpc = "done" /\ Truthy(llm_response))

\* C5 as the spec states it, on the responses where it leaves no doubt:
\* when the first fenced block tagged d2 or untagged has non-blank content
\* with no fence in it, _extract_d2_code returns that content (trimmed); when the response has no
\* fence line at all, it returns the lines from the first line with ":" that
\* starts with neither "#" nor "**" through the end of the response.
C5_FirstD2BlockElseHeuristic ==
    ExtractionRan =>
        LET ls    == Split(llm_response[1], NL)
            block == FirstD2Block(ls, 1)
        IN  /\ ( /\ block # None
                 /\ Strip(block[1]) # << >>
                 /\ ~Contains(block[1], Fence) ) =>
                   d2_code = Some(Strip(block[1]))
            /\ (\A k \in 1..Len(ls) : ~StartsWith(ls[k], Fence)) =>
                   d2_code = FallbackExtract(llm_response[1])

\* neither step of the extraction yields non-empty text from body
NothingRecoverable(body) ==
    /\ LET m == FirstFenceMatch(body, 1) IN m = None \/ Strip(m[1]) = << >>
    /\ ~Truthy(FallbackExtract(body))

\* C6 as the spec states it: for every status-200 body from which neither step
\* yields non-empty text the result is success=false with the error "Failed to
\* extract D2 code from LLM response", not the error of a transport failure.
C6_NoStructureErrorForEveryOkBody ==
    ( /\ cpc = "done"
      /\ endpoint.kind = "status" /\ endpoint.status = StatusOK
      /\ endpoint.content # None
      /\ NothingRecoverable(endpoint.content[1]) ) =>
        /\ result[1].success = FALSE
        /\ result[1].error = ErrNoD2
        /\ result[1].error # ErrNoResponse

\* C15: for a recovered description the result is success=true with the output
\* of the textual renderer on that description as ascii_diagram, whatever the
\* external tool does (unavailable, success, non-zero exit, timeout, error).
C15_RendererOutputWhateverTheTool ==
    (cpc = "done" /\ Truthy(d2_code)) =>
        /\ convert_exc = None
        /\ result # None
        /\ result[1].success = TRUE
        /\ result[1].d2_code = d2_code[1]
        /\ result[1].ascii_diagram = SimpleD2ToAscii(d2_code[1])
        /\ result[1].error = << >>

C15_Witness ==
    /\ cpc = "done"
    /\ d2_tool = "timeout"
    /\ d2_code = Some(<< "A", ":", "b" >>)
    /\ result # None /\ result[1].success
    /\ Contains(result[1].ascii_diagram, << "+- ", "A", " -+" >>)

\* C16 as the spec states it: every temporary file created by _d2_to_ascii has
\* been removed by the time the call returns, on every exit path: success,
\* non-zero exit, timeout, an error raised while creating or writing the files.
C16_NoTemporaryFileLeft ==
    cpc = "done" => temp_left = {}

(***************************************************************************)
(* FileUtils.sanitize_filename, _save_markdown and scrape_library of       *)
(* DeepWikiScraper and FallbackScraper                                     *)
(***************************************************************************)

MaxNameLen == 200
InterPageDelay == 1

\* the characters re.sub(r"[\\/*?:\"<>|]", "", name) removes
InvalidChars == { "\\", "/", "*", "?", ":", "\"", "<", ">", "|" }

\* re.sub(r"\s+", "_", s): every run of whitespace becomes one underscore
CollapseWhitespace(s) ==
    LET skipped == ""
        marked == [ i \in 1..Len(s) |->
                      IF s[i] \notin Whitespace THEN s[i]
                      ELSE IF i < Len(s) /\ s[i + 1] \in Whitespace
                      THEN skipped
                      ELSE "_" ]
    IN  SelectSeq(marked, LAMBDA c : c # skipped)

\* s.strip(". ")
RECURSIVE StripDots(_)
StripDots(s) ==
    IF Len(s) = 0 THEN s
    ELSE IF Head(s) \in { ".", " " } THEN StripDots(Tail(s))
    ELSE IF s[Len(s)] \in { ".", " " } THEN StripDots(SubSeq(s, 1, Len(s) - 1))
    ELSE s

\* FileUtils.sanitize_filename
SanitizeFilename(name) ==
    LET sanitized ==
            StripDots(CollapseWhitespace(
                SelectSeq(name, LAMBDA c : c \notin InvalidChars)))
    IN  IF Len(sanitized) > MaxNameLen THEN Prefix(sanitized, MaxNameLen)
        ELSE sanitized

MdSuffix == << ".", "m", "d" >>

\* the file _save_markdown writes for a page title, inside the directory of
\* the library
FilePath(title) ==
    LET filename == SanitizeFilename(IF title = << >>
                                     THEN << "untitled" >> ELSE title)
    IN  IF Len(filename) >= 3
           /\ SubSeq(filename, Len(filename) - 2, Len(filename)) = MdSuffix
        THEN filename
        ELSE filename \o MdSuffix

MaxPages == 3

\* the titles convert_page can extract from a page (none: the empty text)
PageTitles ==
    { << >>, << "A" >>, << "A", "?" >>, << ".", "a", " ", " ", "b" >> }

\* how one navigation page behaves: its fetch gives content or None, its
\* conversion succeeds or not and extracts a title, writing its file works or
\* raises OSError
PageKinds ==
    { [ fetch |-> FALSE, convert |-> FALSE, title |-> << >>, save |-> TRUE ],
      [ fetch |-> TRUE, convert |-> FALSE, title |-> << >>, save |-> TRUE ] }
        \cup { [ fetch |-> TRUE, convert |-> TRUE, title |-> t, save |-> sv ] :
                   t \in PageTitles, sv \in BOOLEAN }

\* the title of the k-th navigation link
ItemTitle(k) == << "P" >> \o IntToStr(k)

\* page_data["title"]: result["title"] or item["title"]
PageTitle(k, page) == IF page.title # << >> THEN page.title ELSE ItemTitle(k)

\* one iteration of the loop over nav_items, for item k in scraper sc: the
\* delay, the fetch, the conversion, the append, the save
PageStep(sc, save, st, k, page) ==
    LET delay == IF sc = "deepwiki" /\ k > 1
                 THEN << << "sleep", InterPageDelay >> >> ELSE << >>
        ev == st.events \o delay \o << << "fetch", k >> >>
    IN  IF ~page.fetch \/ ~page.convert
        THEN [ st EXCEPT !.events = ev ]
        ELSE LET title == PageTitle(k, page)
                 pages == Append(st.scraped_pages,
                                 [ index |-> k, title |-> title ])
             IN  IF ~save
                 THEN [ st EXCEPT !.events = ev, !.scraped_pages = pages ]
                 ELSE IF page.save
                 THEN [ st EXCEPT !.events = ev, !.scraped_pages = pages,
                            !.saved = Append(@, [ path |-> FilePath(title),
                                                   index |-> k ]) ]
                 ELSE [ st EXCEPT !.events = ev, !.scraped_pages = pages,
                            !.raised = Some("OSError") ]

InitScrape ==
    /\ RenderIdle /\ ConvertIdle /\ PipelineIdle /\ DocsIdle /\ RestIdle
    /\ scraper \in { "deepwiki", "fallback" }
    /\ save_files \in BOOLEAN
    /\ start \in { "invalid_url", "main_fetch_fails", "ok" }
    /\ nav_items \in SeqsUpTo(PageKinds, MaxPages)
    /\ start # "ok" => nav_items = << >>
    /\ page_i = 0 /\ scraped_pages = << >> /\ saved = << >>
    /\ events = << >> /\ returned = None /\ scrape_exc = None
    /\ spc = "start"

\* the URL check, the fetch of the main page, the navigation items
ScrapeStart ==
    /\ spc = "start"
    /\ IF start = "invalid_url"
       THEN /\ returned' = Some(<< >>) /\ spc' = "done"
            /\ UNCHANGED << events, page_i >>
       ELSE /\ events' = Append(events, << "fetch", 0 >>)
            /\ IF start = "main_fetch_fails"
               THEN returned' = Some(<< >>) /\ spc' = "done" /\ page_i' = page_i
               ELSE /\ returned' = returned
                    /\ page_i' = 1
                    /\ spc' = IF nav_items = << >> THEN "main_only" ELSE "loop"
    /\ UNCHANGED << scraper, save_files, start, nav_items, scraped_pages,
                    saved, scrape_exc, rvars, cvars, pvars, dvars, xvars >>

\* what a step that raised does to the call: DeepWikiScraper catches the
\* exception around the whole loop and returns the pages collected so far,
\* FallbackScraper lets it escape
AfterStep(sc, st) ==
    IF st.raised = None THEN [ exc |-> None, returned |-> None, pc |-> "loop" ]
    ELSE IF sc = "deepwiki"
    THEN [ exc |-> None, returned |-> Some(st.scraped_pages), pc |-> "done" ]
    ELSE [ exc |-> st.raised, returned |-> None, pc |-> "done" ]

\* no navigation items: the main page alone is converted, saved and returned
ScrapeMainOnly ==
    /\ spc = "main_only"
    /\ \E page \in { k \in PageKinds : k.fetch } :
          LET st0 == [ events |-> << >>, scraped_pages |-> scraped_pages,
                       saved |-> saved, raised |-> None ]
              st == PageStep("fallback", save_files, st0, 0,
                             [ page EXCEPT !.title =
                                   IF @ = << >> THEN << "l", "i", "b" >> ELSE @ ])
              after == AfterStep(scraper, st)
          IN  /\ scraped_pages' = st.scraped_pages
              /\ saved' = st.saved
              /\ scrape_exc' = after.exc
              /\ returned' = IF st.raised = None THEN Some(st.scraped_pages)
                             ELSE after.returned
    /\ spc' = "done"
    /\ UNCHANGED << scraper, save_files, start, nav_items, page_i, events,
                    rvars, cvars, pvars, dvars, xvars >>

\* one iteration of: for i, item in enumerate(nav_items, 1)
ScrapePage ==
    /\ spc = "loop"
    /\ page_i <= Len(nav_items)
    /\ LET st0 == [ events |-> events, scraped_pages |-> scraped_pages,
                    saved |-> saved, raised |-> None ]
           st == PageStep(scraper, save_files, st0, page_i, nav_items[page_i])
           after == AfterStep(scraper, st)
       IN  /\ events' = st.events
           /\ scraped_pages' = st.scraped_pages
           /\ saved' = st.saved
           /\ scrape_exc' = after.exc
           /\ returned' = after.returned
           /\ spc' = after.pc
    /\ page_i' = page_i + 1
    /\ UNCHANGED << scraper, save_files, start, nav_items,
                    rvars, cvars, pvars, dvars, xvars >>

\* the loop is over: return scraped_pages
ScrapeReturn ==
    /\ spc = "loop"
    /\ page_i > Len(nav_items)
    /\ returned' = Some(scraped_pages)
    /\ spc' = "done"
    /\ UNCHANGED << scraper, save_files, start, nav_items, page_i,
                    scraped_pages, saved, events, scrape_exc,
                    rvars, cvars, pvars, dvars, xvars >>

NextScrape == ScrapeStart \/ ScrapeMainOnly \/ ScrapePage \/ ScrapeReturn

SpecScrape == InitScrape /\ [][NextScrape]_vars

(***************************************************************************)
(* Claims about scrape_library (checked under SpecScrape)                  *)
(***************************************************************************)

\* a run over at least one navigation page that reached its end
NavRunDone == spc = "done" /\ start = "ok" /\ nav_items # << >>

Fetched(k) == \E e \in 1..Len(events) : events[e] = << "fetch", k >>

\* the navigation pages whose fetch and conversion succeed, in order
RECURSIVE GoodPages(_)
GoodPages(k) ==
    IF k = 0 THEN << >>
    ELSE GoodPages(k - 1)
             \o (IF nav_items[k].fetch /\ nav_items[k].convert
                 THEN << k >> ELSE << >>)

\* C17 as the spec states it: a failure confined to one navigation page (its
\* fetch, its conversion or its save) skips only that page: every remaining
\* page is still attempted, the run is not aborted, and the returned list
\* holds exactly the pages fetched and converted successfully, in order.
C17_PageFailureSkipsOnlyThatPage ==
    NavRunDone =>
        /\ scrape_exc = None
        /\ returned # None
        /\ \A k \in 1..Len(nav_items) : Fetched(k)
        /\ [ j \in 1..Len(returned[1]) |-> returned[1][j].index ]
               = GoodPages(Len(nav_items))

\* C18 as the spec states it, for the runs in which every write worked: after
\* scrape_library with save_files=True there is one distinct file for each
\* page of the returned list: no two saved pages resolve to the same path.
C18_OneFilePerReturnedPage ==
    ( /\ NavRunDone /\ save_files /\ returned # None
      /\ \A k \in 1..Len(nav_items) : nav_items[k].save ) =>
        /\ Len(saved) = Len(returned[1])
        /\ \A i, j \in 1..Len(saved) : i # j => saved[i].path # saved[j].path
        /\ Cardinality({ saved[i].path : i \in 1..Len(saved) })
               = Len(returned[1])

\* C19 as the spec states it: pages are fetched one at a time in navigation
\* order, with no delay before the first page and the fixed delay between
\* every two consecutive page fetches, in both scrapers.
C19_DelayBetweenPageFetches ==
    \A e \in 1..Len(events) :
        (events[e][1] = "fetch" /\ events[e][2] >= 1) =>
            /\ \A f \in 1..(e - 1) :
                  events[f][1] = "fetch" => events[f][2] < events[e][2]
            /\ IF events[e][2] = 1
               THEN events[e - 1] = << "fetch", 0 >>
               ELSE events[e - 1] = << "sleep", InterPageDelay >>

(***************************************************************************)
(* extract_and_convert_svgs called for several documents in turn on one    *)
(* ContentCleaner, each call taken as a whole                              *)
(***************************************************************************)

\* a counter kept on the ContentCleaner: a call goes on from where the call
\* before it stopped
StartCounter_Carry(earlier) ==
    IF earlier = << >> THEN 0 ELSE earlier[Len(earlier)].counter

\* placeholder_counter = 0 and svg_replacements = {} at the start of a call,
\* whatever the earlier calls on the same ContentCleaner returned
StartCounter(earlier) == 0
StartMapping(earlier) == << >>

\* re.sub over the matches from index from on, os the outcome of the
\* converter for each of them in turn
RECURSIVE ExtractFrom(_, _, _, _, _, _)
ExtractFrom(s, from, os, counter, mapping, out) ==
    LET m == NextSvgMatch(s, from)
    IN  IF m = None
        THEN [ modified_html |-> out \o SubSeq(s, from, Len(s)),
               svg_replacements |-> mapping, counter |-> counter ]
        ELSE LET step == ReplaceSvgStep(mapping, counter, Head(os))
             IN  ExtractFrom(s, m[1][2] + 1, Tail(os), step.counter,
                             step.mapping,
                             SubStep(out, s, from, m[1], Marker(counter)))

\* extract_and_convert_svgs(html) after the calls earlier
ExtractAndConvertSvgs(html, os, earlier) ==
    ExtractFrom(html, 1, os, StartCounter(earlier), StartMapping(earlier), << >>)

MaxDocs == 3

DocInputs ==
    { << "x" >>,
      SvgOpen \o SvgClose,
      << "x" >> \o SvgOpen \o SvgClose \o << "x" >>,
      SvgOpen \o SvgClose \o << "x" >> \o SvgOpen \o SvgClose }

\* the converter succeeding with a diagram, or raising
DocOutcomes ==
    { o \in ConverterOutcomes :
        \/ o.kind = "raises"
        \/ /\ o.result.success
           /\ o.procs = 0 /\ o.created = {}
           /\ o.result.d2_code = << "A", ":", "b" >> }

InitDocs ==
    /\ RenderIdle /\ ConvertIdle /\ PipelineIdle /\ ScrapeIdle /\ RestIdle
    /\ documents \in SeqsUpTo(DocInputs, MaxDocs)
    /\ call_results = << >>
    /\ dpc = "run"

\* one call of extract_and_convert_svgs, on the next document
ExtractCall ==
    /\ dpc = "run"
    /\ Len(call_results) < Len(documents)
    /\ LET html == documents[Len(call_results) + 1]
       IN  \E os \in [ 1..CountSvgMatches(html, 1) -> DocOutcomes ] :
               LET r == ExtractAndConvertSvgs(html, os, call_results)
               IN  call_results' =
                       Append(call_results,
                              [ html_content |-> html, outcomes |-> os,
                                modified_html |-> r.modified_html,
                                svg_replacements |-> r.svg_replacements,
                                counter |-> r.counter ])
    /\ UNCHANGED << documents, dpc, rvars, cvars, pvars, svars, xvars >>

\* every document has been processed
DocsFinish ==
    /\ dpc = "run"
    /\ Len(call_results) = Len(documents)
    /\ dpc' = "done"
    /\ UNCHANGED << documents, call_results, rvars, cvars, pvars, svars, xvars >>

NextDocs == ExtractCall \/ DocsFinish

SpecDocs == InitDocs /\ [][NextDocs]_vars

(***************************************************************************)
(* Claims about successive documents (checked under SpecDocs)              *)
(***************************************************************************)

\* C20: after any sequence of extract_and_convert_svgs calls on one
\* ContentCleaner, each call numbered its markers from 0 and returned a
\* mapping holding only the fragments of its own document: no counter value
\* and no entry of an earlier document carries over.
C20_MarkersAndMappingLocalToCall ==
    \A c \in 1..Len(call_results) :
        LET r == call_results[c]
            n == CountSvgMatches(r.html_content, 1)
        IN  /\ Len(r.svg_replacements) = n
            /\ \A k \in 1..n :
                  /\ r.svg_replacements[k][1] = Marker(k - 1)
                  /\ Contains(r.modified_html, Marker(k - 1))
                  /\ r.svg_replacements[k][2] =
                         IF r.outcomes[k].kind = "raises"
                         THEN ErrorBlock(r.outcomes[k].msg)
                         ELSE r.outcomes[k].result.ascii_diagram
            /\ \A k \in n..(n + 2) : ~Contains(r.modified_html, Marker(k))

C20_Witness ==
    /\ dpc = "done"
    /\ Len(call_results) = 3
    /\ Len(call_results[1].svg_replacements) = 2
    /\ Len(call_results[2].svg_replacements) = 1
    /\ call_results[2].svg_replacements[1][1] = Marker(0)
    /\ Len(call_results[3].svg_replacements) = 0

(***************************************************************************)
(* MarkdownConverter.convert_page.  The page is what BeautifulSoup finds   *)
(* in it: the text of the first element of each title selector, and the    *)
(* markup of the element extract_main_content settles on.  The markup is a *)
(* Text whose pieces are characters, svg tags, a link and a navigation     *)
(* block.                                                                  *)
(***************************************************************************)

\* <a href="u">t</a> and what markdownify makes of it, [t](u); what
\* clean_markdown_links makes of that
HtmlLink == "<a href=\"u\">t</a>"
MdLink == "[t](u)"
CleanedLink == "[t]()"

\* <nav>Menu</nav>, a navigation element
NavBlock == "<nav>Menu</nav>"

\* a flowchart fragment with a label inside
Fragment == SvgOpen \o << "g" >> \o SvgClose

TagPieces == { SvgOpen[1], SvgClose[1], PlainSvgOpen[1] }

\* the text inside one piece of markup
PieceText(c) ==
    IF c \in TagPieces THEN << >>
    ELSE IF c = NavBlock THEN << "Menu" >>
    ELSE IF c = HtmlLink THEN << "t" >>
    ELSE << c >>

\* element.get_text(strip=True)
GetText(markup) ==
    Strip(Join([ i \in 1..Len(markup) |-> PieceText(markup[i]) ], << >>))

\* extract_main_content: None for an empty page, for a page with no
\* candidate element and for a candidate without text
ExtractMainContent(p) ==
    IF p.html_empty THEN None
    ELSE IF p.body = None THEN None
    ELSE IF GetText(p.body[1]) = << >> THEN None
    ELSE p.body

\* title_selectors, in the order they are tried
TitleSelectors == << "h1", "title", ".page-title", ".article-title" >>

\* the loop over the selectors: the text of the first element found whose
\* text is not empty
RECURSIVE FirstTitle(_, _, _)
FirstTitle(p, selectors, i) ==
    IF i > Len(selectors) THEN None
    ELSE LET element == p.elements[selectors[i]]
         IN  IF element # None /\ element[1] # << >>
             THEN Some(element[1])
             ELSE FirstTitle(p, selectors, i + 1)

\* ContentCleaner.extract_title_from_content
ExtractTitleFromContent(p) == FirstTitle(p, TitleSelectors, 1)

\* ContentCleaner.remove_navigation_elements: the navigation elements are
\* decomposed
RemoveNavigationElements(markup) ==
    SelectSeq(markup, LAMBDA c : c # NavBlock)

\* markdownify on one piece: tags go, their text stays, a link becomes a
\* Markdown link
PieceMarkdown(c) ==
    IF c = HtmlLink THEN << MdLink >> ELSE PieceText(c)

\* markdownify(html_content, ...)
Markdownify(markup) ==
    Join([ i \in 1..Len(markup) |-> PieceMarkdown(markup[i]) ], << >>)

\* the loop of _clean_markdown: lines right-stripped, an empty line after an
\* empty line skipped
RECURSIVE CleanLines(_, _, _)
CleanLines(ls, prev_empty, cleaned_lines) ==
    IF Len(ls) = 0 THEN cleaned_lines
    ELSE LET line == RStrip(Head(ls))
             is_empty == (line = << >>)
         IN  IF is_empty /\ prev_empty
             THEN CleanLines(Tail(ls), prev_empty, cleaned_lines)
             ELSE CleanLines(Tail(ls), is_empty, Append(cleaned_lines, line))

\* MarkdownConverter._clean_markdown
CleanMarkdown(markdown) ==
    IF markdown = << >> THEN << >>
    ELSE Strip(Join(CleanLines(Split(markdown, NL), FALSE, << >>), NL))

\* ContentCleaner.clean_markdown_links: the URL of a link goes, its text stays
CleanMarkdownLinks(content) ==
    [ i \in 1..Len(content) |->
        IF content[i] = MdLink THEN CleanedLink ELSE content[i] ]

\* MarkdownConverter.html_to_markdown(main_content) up to the call of
\* markdownify: the markup handed to it
MarkupForTranslation(strip, markup) ==
    IF strip THEN RemoveNavigationElements(markup) ELSE markup

\* the calls html_to_markdown makes, in order, when markdownify returns
HtmlToMarkdownCalls(strip) ==
    (IF strip THEN << "remove_navigation_elements" >> ELSE << >>)
        \o << "markdownify" >>

\* MarkdownConverter.html_to_markdown when markdownify returns
HtmlToMarkdown(strip, markup) ==
    CleanMarkdown(Markdownify(MarkupForTranslation(strip, markup)))

MaxPageSegs == 2

PageSegments ==
    { << "x" >>, << " " >>, NL, Fragment, << HtmlLink >>, << NavBlock >> }

PageBodies == { Join(q, << >>) : q \in SeqsUpTo(PageSegments, MaxPageSegs) }

\* the first element of each title selector: none, one with empty text, one
\* with a text of its own
PageElements ==
    { e \in [ { "h1", "title", ".page-title", ".article-title" } ->
                { None, Some(<< >>), Some(<< "H" >>), Some(<< "T" >>),
                  Some(<< "P" >>), Some(<< "A" >>) } ] :
        /\ e["h1"] \in { None, Some(<< >>), Some(<< "H" >>) }
        /\ e["title"] \in { None, Some(<< >>), Some(<< "T" >>) }
        /\ e[".page-title"] \in { None, Some(<< "P" >>) }
        /\ e[".article-title"] \in { None, Some(<< "A" >>) } }

\* the empty string, and the pages that are not empty
PageInputs ==
    { [ html_empty |-> TRUE ] }
        \cup { [ html_empty |-> FALSE, elements |-> e, body |-> b ] :
                 e \in PageElements,
                 b \in { None } \cup { Some(m) : m \in PageBodies } }

\* MarkdownConverter(strip_navigation=...) built, convert_page(html) called
InitPage ==
    /\ RenderIdle /\ ConvertIdle /\ PipelineIdle /\ ScrapeIdle /\ DocsIdle
    /\ CleanerIdle /\ FilenameIdle /\ UrlIdle /\ MarkersIdle
    /\ FilterIdle /\ LibrariesIdle /\ BrowserIdle
    /\ strip_navigation \in BOOLEAN
    /\ page_in \in PageInputs
    /\ translator \in { "ok", "raises" }
    /\ main_content = None /\ page_title = None
    /\ page_markdown = << >> /\ calls = << >>
    /\ convert_result = NewResult /\ page_exc = None
    /\ gpc = "main"

\* main_content = self.extract_main_content(html_content, url); without a
\* main content the result is returned as it is
ConvertPageMain ==
    /\ gpc = "main"
    /\ main_content' = ExtractMainContent(page_in)
    /\ calls' = Append(calls, "extract_main_content")
    /\ gpc' = IF ExtractMainContent(page_in) = None THEN "done" ELSE "title"
    /\ UNCHANGED << strip_navigation, page_in, translator, page_title,
                    page_markdown, convert_result, page_exc, gframe >>

\* title = self.cleaner.extract_title_from_content(html_content)
ConvertPageTitle ==
    /\ gpc = "title"
    /\ page_title' = ExtractTitleFromContent(page_in)
    /\ calls' = Append(calls, "extract_title_from_content")
    /\ convert_result' =
           IF ExtractTitleFromContent(page_in) # None
           THEN [ convert_result EXCEPT
                    !.title = ExtractTitleFromContent(page_in)[1] ]
           ELSE convert_result
    /\ gpc' = "markdown"
    /\ UNCHANGED << strip_navigation, page_in, translator, main_content,
                    page_markdown, page_exc, gframe >>

\* markdown_content = self.html_to_markdown(main_content) and the rest of the
\* try block; an exception of the translator is caught and logged
ConvertPageMarkdown ==
    /\ gpc = "markdown"
    /\ IF translator = "raises"
       THEN /\ calls' = calls \o HtmlToMarkdownCalls(strip_navigation)
            /\ UNCHANGED << page_markdown, convert_result >>
       ELSE LET markdown == HtmlToMarkdown(strip_navigation, main_content[1])
            IN  /\ page_markdown' = markdown
                /\ IF markdown # << >>
                   THEN /\ calls' = calls
                              \o HtmlToMarkdownCalls(strip_navigation)
                              \o << "_clean_markdown", "clean_markdown_links" >>
                        /\ convert_result' =
                               [ convert_result EXCEPT
                                   !.content = CleanMarkdownLinks(markdown),
                                   !.success = TRUE ]
                   ELSE /\ calls' = calls
                              \o HtmlToMarkdownCalls(strip_navigation)
                              \o << "_clean_markdown" >>
                        /\ UNCHANGED convert_result
    /\ gpc' = "done"
    /\ UNCHANGED << strip_navigation, page_in, translator, main_content,
                    page_title, page_exc, gframe >>

NextPage == ConvertPageMain \/ ConvertPageTitle \/ ConvertPageMarkdown

SpecPage == InitPage /\ [][NextPage]_vars

(***************************************************************************)
(* Claims about convert_page (checked under SpecPage)                      *)
(***************************************************************************)

\* the number of flowchart fragments in the main content of the page
PageFragments ==
    IF main_content = None THEN 0 ELSE CountSvgMatches(main_content[1], 1)

\* C21: when convert_page has converted a page whose markup contains
\* flowchart fragments, extract_and_convert_svgs was called before the
\* translator and insert_svg_replacements after it, and the Markdown
\* returned holds no marker.
C21_ExtractionThenTranslationThenSplicing ==
    (gpc = "done" /\ convert_result.success /\ PageFragments > 0)
        => /\ \E i, j, k \in 1..Len(calls) :
                 /\ i < j /\ j < k
                 /\ calls[i] = "extract_and_convert_svgs"
                 /\ calls[j] = "markdownify"
                 /\ calls[k] = "insert_svg_replacements"
           /\ ~Contains(convert_result.content, Sentinel)

\* C23: the title convert_page returns for a converted page that has a
\* <title> element with a text is the text of that element, whatever the h1
\* heading of the page says.
C23_TitleIsTextOfTitleElement ==
    (/\ gpc = "done" /\ convert_result.success
     /\ page_in.elements["title"] # None
     /\ page_in.elements["title"][1] # << >>)
        => convert_result.title = page_in.elements["title"][1]

\* C25: convert_page lets no exception escape; a result with success false
\* has an empty content and an empty title, a result with success true has a
\* content that is not empty.
C25_FailureIsEmptySuccessHasContent ==
    /\ page_exc = None
    /\ gpc = "done"
         => /\ ~convert_result.success
                 => /\ convert_result.content = << >>
                    /\ convert_result.title = << >>
            /\ convert_result.success => convert_result.content # << >>

(***************************************************************************)
(* FileUtils.sanitize_filename on one name                                 *)
(***************************************************************************)

MaxTitleLen == 3

NameChars == { "a", " ", "\t", ".", "/", ":" }

\* a name of MaxNameLen - 1 letters
Filler == [ i \in 1..(MaxNameLen - 1) |-> "a" ]

\* names around the length limit: the filler followed by letters and dots
LongNames == { Filler \o t : t \in SeqsUpTo({ "b", "." }, 2) }

FilenameInputs == SeqsUpTo(NameChars, MaxTitleLen) \cup LongNames

InitFilename ==
    /\ RenderIdle /\ ConvertIdle /\ PipelineIdle /\ ScrapeIdle /\ DocsIdle
    /\ PageIdle /\ CleanerIdle /\ UrlIdle /\ MarkersIdle
    /\ FilterIdle /\ LibrariesIdle /\ BrowserIdle
    /\ filename_in \in FilenameInputs
    /\ filename_out = None
    /\ fpc = "call"

\* sanitize_filename(name) returns
SanitizeCall ==
    /\ fpc = "call"
    /\ filename_out' = Some(SanitizeFilename(filename_in))
    /\ fpc' = "done"
    /\ UNCHANGED << filename_in, fframe >>

NextFilename == SanitizeCall

SpecFilename == InitFilename /\ [][NextFilename]_vars

\* C22: the name sanitize_filename returns is a part of the argument with
\* the characters \ / * ? : " < > | removed and every run of whitespace
\* replaced by one underscore; it holds none of those characters and no
\* whitespace, neither starts nor ends with a dot or a space, and is at most
\* 200 characters long.
C22_SanitizedNameIsClean ==
    fpc = "done"
        => LET out == filename_out[1]
               full == CollapseWhitespace(
                           SelectSeq(filename_in,
                                     LAMBDA c : c \notin InvalidChars))
           IN  /\ \E k \in 0..(Len(full) - Len(out)) :
                      SubSeq(full, k + 1, k + Len(out)) = out
               /\ \A i \in 1..Len(out) :
                      out[i] \notin InvalidChars \cup Whitespace
               /\ out # << >> =>
                      /\ out[1] \notin { ".", " " }
                      /\ out[Len(out)] \notin { ".", " " }
               /\ Len(out) <= 200

(***************************************************************************)
(* DeepWikiURL.  A URL is a Text whose pieces are the scheme "https:", the *)
(* slash, and whole names (a host name, a path component).                 *)
(***************************************************************************)

Slash == << "/" >>
Scheme == << "https:" >>

\* url.rstrip('/')
RECURSIVE RStripSlash(_)
RStripSlash(u) ==
    IF Len(u) > 0 /\ u[Len(u)] = "/"
    THEN RStripSlash(SubSeq(u, 1, Len(u) - 1)) ELSE u

\* urlparse(url): after the scheme, a leading // starts the network location,
\* which runs to the next slash; the rest is the path
UrlParse(u) ==
    LET rest == IF StartsWith(u, Scheme) THEN Tail(u) ELSE u
        scheme == IF StartsWith(u, Scheme) THEN << "https" >> ELSE << >>
    IN  IF StartsWith(rest, Slash \o Slash)
        THEN LET after == SubSeq(rest, 3, Len(rest))
                 k == Find(after, Slash, 1)
             IN  IF k = 0
                 THEN [ scheme |-> scheme, netloc |-> after, path |-> << >> ]
                 ELSE [ scheme |-> scheme,
                        netloc |-> SubSeq(after, 1, k - 1),
                        path |-> SubSeq(after, k, Len(after)) ]
        ELSE [ scheme |-> scheme, netloc |-> << >>, path |-> rest ]

\* DeepWikiURL.__init__
DeepWikiURLInit(url) ==
    [ url |-> RStripSlash(url), parsed |-> UrlParse(RStripSlash(url)) ]

\* DeepWikiURL.domain
Domain(self) == self.parsed.netloc

\* path.strip('/')
RECURSIVE StripSlash(_)
StripSlash(s) ==
    IF Len(s) > 0 /\ s[1] = "/" THEN StripSlash(Tail(s))
    ELSE RStripSlash(s)

\* DeepWikiURL.path_parts
PathParts(self) ==
    SelectSeq(Split(StripSlash(self.parsed.path), Slash),
              LAMBDA part : part # << >>)

\* DeepWikiURL.library_name: an Optional, None when there is no path component
LibraryName(self) ==
    LET parts == PathParts(self)
    IN  IF Len(parts) >= 2 THEN Some(parts[2])
        ELSE IF parts # << >> THEN Some(parts[1]) ELSE None

\* the host names with "deepwiki" in their lower-cased form
DeepwikiHosts == { "deepwiki.com", "DeepWiki.org" }

\* DeepWikiURL.is_valid_deepwiki
IsValidDeepwiki(self) ==
    /\ Domain(self) # << >>
    /\ \E i \in 1..Len(Domain(self)) : Domain(self)[i] \in DeepwikiHosts
    /\ Len(PathParts(self)) >= 1

\* DeepWikiURL.get_base_url
GetBaseUrl(self) ==
    self.parsed.scheme \o << ":", "/", "/" >> \o self.parsed.netloc

MaxParts == 3

\* a URL: nothing or a scheme and a host, then path components (an empty one
\* gives two slashes in a row), then a slash or not
UrlHeads ==
    { << >>,
      Scheme \o Slash \o Slash \o << "deepwiki.com" >>,
      Scheme \o Slash \o Slash \o << "DeepWiki.org" >>,
      Scheme \o Slash \o Slash \o << "example.com" >> }

UrlPaths ==
    { Join(q, Slash) : q \in SeqsUpTo({ << "rei-2" >>, << "Amalgam" >>, << >> },
                                      MaxParts) }

UrlInputs ==
    { head \o (IF head # << >> /\ path # << >> THEN Slash ELSE << >>)
           \o path \o tail :
        head \in UrlHeads, path \in UrlPaths, tail \in { << >>, Slash } }

InitUrl ==
    /\ RenderIdle /\ ConvertIdle /\ PipelineIdle /\ ScrapeIdle /\ DocsIdle
    /\ PageIdle /\ CleanerIdle /\ FilenameIdle /\ MarkersIdle
    /\ FilterIdle /\ LibrariesIdle /\ BrowserIdle
    /\ url_in \in UrlInputs
    /\ url_obj = None /\ url_props = None
    /\ upc = "new"

\* DeepWikiURL(url)
UrlConstruct ==
    /\ upc = "new"
    /\ url_obj' = Some(DeepWikiURLInit(url_in))
    /\ upc' = "built"
    /\ UNCHANGED << url_in, url_props, uframe >>

\* the properties and methods of the object are read
UrlRead ==
    /\ upc = "built"
    /\ url_props' = Some([ domain |-> Domain(url_obj[1]),
                           path_parts |-> PathParts(url_obj[1]),
                           library_name |-> LibraryName(url_obj[1]),
                           is_valid_deepwiki |-> IsValidDeepwiki(url_obj[1]),
                           base_url |-> GetBaseUrl(url_obj[1]) ])
    /\ upc' = "done"
    /\ UNCHANGED << url_in, url_obj, uframe >>

NextUrl == UrlConstruct \/ UrlRead

SpecUrl == InitUrl /\ [][NextUrl]_vars

\* C24: library_name is the second path component of a URL whose path has
\* two components or more, and the empty string for a URL without a path
\* component; the empty URL is not a valid DeepWiki URL and its domain is
\* empty.
C24_SecondComponentElseEmptyString ==
    upc = "done"
        => LET props == url_props[1]
           IN  /\ Len(props.path_parts) >= 2
                    => props.library_name = Some(props.path_parts[2])
               /\ Len(props.path_parts) = 0
                    => props.library_name = Some(<< >>)
               /\ url_in = << >>
                    => /\ ~props.is_valid_deepwiki
                       /\ props.domain = << >>

(***************************************************************************)
(* insert_svg_replacements with the entries of one mapping in two          *)
(* insertion orders, and applied again to its own result                   *)
(***************************************************************************)

MaxMdSegs == 3

\* the indices of the markers of the mapping
MarkerIndices == { 1, 10 }

\* a marker with the index 10 put between "<!-- SVG_PLACEHOLDER_" and
\* "1 -->": without it the text around it reads as the marker of index 1
NestedMarker ==
    << "<!-- " >> \o Sentinel \o << "_" >> \o Marker(10)
        \o << "1", " ", "-", "-", ">" >>

MdSegments == { << "x" >>, Marker(1), Marker(10), NestedMarker }

MarkerMds == { Join(q, << >>) : q \in SeqsUpTo(MdSegments, MaxMdSegs) }

\* the texts of the entries: empty, a diagram, a text holding a marker
MarkerTexts == { << >>, << "D" >>, Marker(1) }

\* the dicts with markers of MarkerIndices as keys, in each insertion order
MarkerMappings ==
    { q \in SeqsUpTo({ << Marker(n), t >> : n \in MarkerIndices,
                                             t \in MarkerTexts }, 2) :
        \A i, j \in 1..Len(q) : i # j => q[i][1] # q[j][1] }

\* the same entries
SameEntries(p, q) ==
    { p[i] : i \in 1..Len(p) } = { q[i] : i \in 1..Len(q) }

InitMarkers ==
    /\ RenderIdle /\ ConvertIdle /\ PipelineIdle /\ ScrapeIdle /\ DocsIdle
    /\ PageIdle /\ CleanerIdle /\ FilenameIdle /\ UrlIdle
    /\ FilterIdle /\ LibrariesIdle /\ BrowserIdle
    /\ marker_md \in MarkerMds
    /\ map_a \in MarkerMappings
    /\ map_b \in { q \in MarkerMappings : SameEntries(map_a, q) }
    /\ out_a = None /\ out_b = None /\ out_again = None
    /\ mpc = "first"

\* insert_svg_replacements(markdown, mapping)
SpliceFirstOrder ==
    /\ mpc = "first"
    /\ out_a' = Some(InsertSvgReplacements(marker_md, map_a))
    /\ mpc' = "other"
    /\ UNCHANGED << marker_md, map_a, map_b, out_b, out_again, mframe >>

\* insert_svg_replacements(markdown, the mapping built in the other order)
SpliceOtherOrder ==
    /\ mpc = "other"
    /\ out_b' = Some(InsertSvgReplacements(marker_md, map_b))
    /\ mpc' = "again"
    /\ UNCHANGED << marker_md, map_a, map_b, out_a, out_again, mframe >>

\* insert_svg_replacements(result of the first call, mapping)
SpliceAgain ==
    /\ mpc = "again"
    /\ out_again' = Some(InsertSvgReplacements(out_a[1], map_a))
    /\ mpc' = "done"
    /\ UNCHANGED << marker_md, map_a, map_b, out_a, out_b, mframe >>

NextMarkers == SpliceFirstOrder \/ SpliceOtherOrder \/ SpliceAgain

SpecMarkers == InitMarkers /\ [][NextMarkers]_vars

(***************************************************************************)
(* Claims about the markers (checked under SpecMarkers)                    *)
(***************************************************************************)

\* the pieces that hold the character "<"
AnglePieces == { "<!-- ", "<", SvgOpen[1], SvgClose[1], PlainSvgOpen[1] }

HasAngle(t) == \E i \in 1..Len(t) : t[i] \in AnglePieces

\* the pieces of md that lie outside its markers, scanning left to right
RECURSIVE OutsideMarkers(_, _)
OutsideMarkers(md, i) ==
    IF i > Len(md) THEN << >>
    ELSE IF MatchAt(md, Marker(10), i)
    THEN OutsideMarkers(md, i + Len(Marker(10)))
    ELSE IF MatchAt(md, Marker(1), i)
    THEN OutsideMarkers(md, i + Len(Marker(1)))
    ELSE << md[i] >> \o OutsideMarkers(md, i + 1)

\* no marker occurs inside another one
NoMarkerInsideAnother ==
    \A i, j \in 0..12 : i # j => ~Contains(Marker(j), Marker(i))

\* replacing the marker of an entry leaves the occurrences of the other
\* markers in place
OtherMarkersKept ==
    \A e \in 1..Len(map_a) : \A n \in MarkerIndices :
        Marker(n) # map_a[e][1]
            => Count(Replace(marker_md, map_a[e][1], map_a[e][2]), Marker(n))
                   >= Count(marker_md, Marker(n))

\* C26 (as stated): no marker occurs inside another one and replacing one
\* marker leaves the others in place; for a mapping whose texts hold no
\* sentinel the text returned is the same for both insertion orders, and
\* splicing the returned text again gives the same text.
C26_OrderAndRepetitionIrrelevant ==
    /\ NoMarkerInsideAnother
    /\ OtherMarkersKept
    /\ (mpc = "done"
        /\ \A e \in 1..Len(map_a) : ~Contains(map_a[e][2], Sentinel))
          => out_a = out_b /\ out_again = out_a

\* C26 (amended): the same, for a Markdown whose text outside its markers,
\* and a mapping whose texts, hold no "<".
C26_OrderAndRepetitionIrrelevantWithoutAngle ==
    /\ NoMarkerInsideAnother
    /\ OtherMarkersKept
    /\ (mpc = "done"
        /\ ~HasAngle(OutsideMarkers(marker_md, 1))
        /\ \A e \in 1..Len(map_a) : ~HasAngle(map_a[e][2]))
          => out_a = out_b /\ out_again = out_a

C26_Witness ==
    /\ mpc = "done"
    /\ Len(map_a) = 2 /\ map_a # map_b
    /\ ~HasAngle(OutsideMarkers(marker_md, 1))
    /\ \A e \in 1..Len(map_a) : ~HasAngle(map_a[e][2])
    /\ Count(marker_md, Marker(1)) = 1 /\ Count(marker_md, Marker(10)) = 1
    /\ out_a[1] # marker_md
    /\ out_a = out_b

(***************************************************************************)
(* extract_and_convert_svgs on a ContentCleaner with or without converter  *)
(***************************************************************************)

\* ContentCleaner.__init__(svg_converter=None)
ContentCleanerInit(svg_converter) == [ svg_converter |-> svg_converter ]

\* self.cleaner = ContentCleaner() in MarkdownConverter.__init__
DefaultCleaner == ContentCleanerInit(None)

\* extract_and_convert_svgs without the test of self.svg_converter
ExtractAndConvertSvgsOf_NoGuard(self, html, os) ==
    ExtractAndConvertSvgs(html, os, << >>)

\* extract_and_convert_svgs of the cleaner self: without a converter the
\* markup comes back as it is, with an empty mapping
ExtractAndConvertSvgsOf(self, html, os) ==
    IF self.svg_converter = None
    THEN [ modified_html |-> html, svg_replacements |-> << >>, counter |-> 0 ]
    ELSE ExtractAndConvertSvgs(html, os, << >>)

\* a converter: what it does for each fragment is chosen at the call
Cleaners == { DefaultCleaner, ContentCleanerInit(Some("SVGToD2Converter")) }

InitCleaner ==
    /\ RenderIdle /\ ConvertIdle /\ PipelineIdle /\ ScrapeIdle /\ DocsIdle
    /\ PageIdle /\ FilenameIdle /\ UrlIdle /\ MarkersIdle
    /\ FilterIdle /\ LibrariesIdle /\ BrowserIdle
    /\ cleaner \in Cleaners
    /\ cleaner_html \in HtmlInputs
    /\ cleaner_out = None
    /\ npc = "call"

\* cleaner.extract_and_convert_svgs(html); os is what the converter does for
\* each fragment (a call on a missing converter could only raise)
CleanerExtract ==
    /\ npc = "call"
    /\ \E os \in [ 1..CountSvgMatches(cleaner_html, 1) -> DocOutcomes ] :
          /\ cleaner.svg_converter = None
                => \A k \in DOMAIN os : os[k].kind = "raises"
          /\ cleaner_out' =
                 Some(ExtractAndConvertSvgsOf(cleaner, cleaner_html, os))
    /\ npc' = "done"
    /\ UNCHANGED << cleaner, cleaner_html, nframe >>

NextCleaner == CleanerExtract

SpecCleaner == InitCleaner /\ [][NextCleaner]_vars

\* C27: extract_and_convert_svgs of a ContentCleaner without converter (as
\* MarkdownConverter builds it) returns the markup it was given and an empty
\* mapping for every markup, with or without flowchart fragments: no marker
\* is created and no fragment is removed.
C27_NoConverterLeavesMarkupAlone ==
    (npc = "done" /\ cleaner = DefaultCleaner)
        => /\ cleaner_out[1].modified_html = cleaner_html
           /\ cleaner_out[1].svg_replacements = << >>
           /\ Count(cleaner_out[1].modified_html, Sentinel)
                  = Count(cleaner_html, Sentinel)
           /\ CountSvgMatches(cleaner_out[1].modified_html, 1)
                  = CountSvgMatches(cleaner_html, 1)

C27_Witness ==
    /\ npc = "done" /\ cleaner = DefaultCleaner
    /\ CountSvgMatches(cleaner_html, 1) = 2
    /\ cleaner_out[1].modified_html = cleaner_html
    /\ cleaner_out[1].svg_replacements = << >>

(***************************************************************************)
(* ContentCleaner.filter_css_mermaid_content, one line at a time           *)
(***************************************************************************)

MermaidId == << "#mermaid-" >>
FontFamily == << "font-family:ui-sans-serif" >>
Keyframes == << "@keyframes" >>
StrokeDash == << "stroke-dasharray" >>

\* line.strip().startswith('```')
IsFenceLine(line) == StartsWith(Strip(line), Fence)

\* '#mermaid-' in line or 'font-family:ui-sans-serif' in line
CarriesCss(line) == Contains(line, MermaidId) \/ Contains(line, FontFamily)

\* the test of the lines that look like CSS/Mermaid ids or properties
LooksLikeCss(line) ==
    \/ StartsWith(Strip(line), MermaidId)
    \/ Contains(line, FontFamily)
    \/ Contains(line, Keyframes)
    \/ Contains(line, StrokeDash)

\* one iteration of the loop: the locals after the line
FilterStep(st, line) ==
    IF IsFenceLine(line)
    THEN LET in_block == ~st.in_code_block
             skip == IF in_block /\ CarriesCss(line) THEN TRUE
                     ELSE IF ~in_block THEN FALSE
                     ELSE st.skip_css_block
         IN  [ in_code_block |-> in_block, skip_css_block |-> skip,
               filtered_lines |->
                   IF ~skip THEN Append(st.filtered_lines, line)
                   ELSE st.filtered_lines ]
    ELSE IF st.skip_css_block THEN st
    ELSE IF LooksLikeCss(line) THEN st
    ELSE [ st EXCEPT !.filtered_lines = Append(st.filtered_lines, line) ]

MaxFilterLines == 4

FilterLineSet ==
    { << >>, << "x" >>, Fence, << " " >> \o Fence \o << "p", "y" >>,
      Fence \o MermaidId, MermaidId, Keyframes }

FilterInputs ==
    { Join(ls, NL) : ls \in SeqsUpTo(FilterLineSet, MaxFilterLines) }

InitFilter ==
    /\ RenderIdle /\ ConvertIdle /\ PipelineIdle /\ ScrapeIdle /\ DocsIdle
    /\ PageIdle /\ CleanerIdle /\ FilenameIdle /\ UrlIdle /\ MarkersIdle
    /\ LibrariesIdle /\ BrowserIdle
    /\ filter_content \in FilterInputs
    /\ filter_lines = << >> /\ filtered_lines = << >>
    /\ in_code_block = FALSE /\ skip_css_block = FALSE
    /\ filter_i = 0 /\ filter_out = None
    /\ kpc = "begin"

\* lines = content.split('\n') and the locals of the loop
FilterBegin ==
    /\ kpc = "begin"
    /\ filter_lines' = Split(filter_content, NL)
    /\ filtered_lines' = << >>
    /\ in_code_block' = FALSE /\ skip_css_block' = FALSE
    /\ filter_i' = 1
    /\ kpc' = "loop"
    /\ UNCHANGED << filter_content, filter_out, kframe >>

\* the body of the loop for the next line
FilterLine ==
    /\ kpc = "loop"
    /\ filter_i <= Len(filter_lines)
    /\ LET st == FilterStep([ in_code_block |-> in_code_block,
                              skip_css_block |-> skip_css_block,
                              filtered_lines |-> filtered_lines ],
                            filter_lines[filter_i])
       IN  /\ in_code_block' = st.in_code_block
           /\ skip_css_block' = st.skip_css_block
           /\ filtered_lines' = st.filtered_lines
    /\ filter_i' = filter_i + 1
    /\ UNCHANGED << filter_content, filter_lines, filter_out, kpc, kframe >>

\* return '\n'.join(filtered_lines)
FilterReturn ==
    /\ kpc = "loop"
    /\ filter_i > Len(filter_lines)
    /\ filter_out' = Some(Join(filtered_lines, NL))
    /\ kpc' = "done"
    /\ UNCHANGED << filter_content, filter_lines, filtered_lines,
                    in_code_block, skip_css_block, filter_i, kframe >>

NextFilter == FilterBegin \/ FilterLine \/ FilterReturn

SpecFilter == InitFilter /\ [][NextFilter]_vars

(***************************************************************************)
(* Claims about the filter (checked under SpecFilter)                      *)
(***************************************************************************)

\* the fence lines among ls
FenceLines(ls) == SelectSeq(ls, IsFenceLine)

\* the fenced blocks of ls, each from its opening fence to its closing fence,
\* for lines whose fences are paired
RECURSIVE FencedBlocks(_, _, _)
FencedBlocks(ls, i, open) ==
    IF i > Len(ls) THEN << >>
    ELSE IF IsFenceLine(ls[i])
    THEN IF open = 0 THEN FencedBlocks(ls, i + 1, i)
         ELSE << SubSeq(ls, open, i) >> \o FencedBlocks(ls, i + 1, 0)
    ELSE FencedBlocks(ls, i + 1, open)

\* C28: for an input whose fence lines are paired, the output of
\* filter_css_mermaid_content holds the fenced blocks of the input whose
\* opening fence carries no CSS/Mermaid content, each of them intact, and
\* nothing of the others; its fence lines are paired.
C28_CssBlocksRemovedInFullOthersIntact ==
    (kpc = "done" /\ Len(FenceLines(filter_lines)) % 2 = 0)
        => /\ Len(FenceLines(filtered_lines)) % 2 = 0
           /\ FencedBlocks(filtered_lines, 1, 0)
                  = SelectSeq(FencedBlocks(filter_lines, 1, 0),
                              LAMBDA b : ~CarriesCss(b[1]))

(***************************************************************************)
(* scrape_multiple_libraries (DeepWikiScraper and FallbackScraper have the *)
(* same loop), one URL at a time                                           *)
(***************************************************************************)

MaxLibs == 3

\* f"library_{len(results)}"
FallbackName(n) == << "library_" >> \o IntToStr(n)

\* deepwiki_url.library_name or f"library_{len(results)}"
LibraryNameOr(url, results) ==
    LET library_name == LibraryName(DeepWikiURLInit(url))
    IN  IF library_name = None \/ library_name[1] = << >>
        THEN FallbackName(Len(results))
        ELSE library_name[1]

\* URLs of two libraries with the same name, of another library, of a
\* library called library_1, and the empty URL
LibUrls ==
    { Scheme \o Slash \o Slash \o << "deepwiki.com", "/", "a", "/", "Lib" >>,
      Scheme \o Slash \o Slash \o << "deepwiki.com", "/", "b", "/", "Lib" >>,
      Scheme \o Slash \o Slash \o << "deepwiki.com", "/", "a", "/", "Other" >>,
      Scheme \o Slash \o Slash \o << "deepwiki.com", "/", "library_", "1" >>,
      << >> }

InitLibraries ==
    /\ RenderIdle /\ ConvertIdle /\ PipelineIdle /\ ScrapeIdle /\ DocsIdle
    /\ PageIdle /\ CleanerIdle /\ FilenameIdle /\ UrlIdle /\ MarkersIdle
    /\ FilterIdle /\ BrowserIdle
    /\ lib_urls \in SeqsUpTo(LibUrls, MaxLibs)
    /\ lib_i = 1 /\ lib_pages = << >>
    /\ lib_results = << >> /\ lib_returned = None
    /\ lpc = "loop"

\* the body of the loop for the next URL: scrape_library returns the pages
\* it scraped (none or some, each page bearing the URL it came from), which
\* are stored under the name of the library
ScrapeNextLibrary ==
    /\ lpc = "loop"
    /\ lib_i <= Len(lib_urls)
    /\ \E n \in 0..1 :
          LET url == lib_urls[lib_i]
              library_name == LibraryNameOr(url, lib_results)
              pages == [ p \in 1..n |-> [ url |-> url, call |-> lib_i ] ]
          IN  /\ lib_pages' = Append(lib_pages, pages)
              /\ lib_results' = DictSet(lib_results, library_name, pages)
    /\ lib_i' = lib_i + 1
    /\ UNCHANGED << lib_urls, lib_returned, lpc, lframe >>

\* return results
LibrariesReturn ==
    /\ lpc = "loop"
    /\ lib_i > Len(lib_urls)
    /\ lib_returned' = Some(lib_results)
    /\ lpc' = "done"
    /\ UNCHANGED << lib_urls, lib_i, lib_pages, lib_results, lframe >>

NextLibraries == ScrapeNextLibrary \/ LibrariesReturn

SpecLibraries == InitLibraries /\ [][NextLibraries]_vars

\* C29: the dictionary scrape_multiple_libraries returns has one entry for
\* each URL of its argument, and for each URL an entry that holds the pages
\* scrape_library returned for that URL.
C29_OneEntryPerUrlNoneReplaced ==
    lpc = "done"
        => /\ Len(lib_returned[1]) = Len(lib_urls)
           /\ \A k \in 1..Len(lib_urls) :
                  \E e \in 1..Len(lib_returned[1]) :
                      lib_returned[1][e][2] = lib_pages[k]

(***************************************************************************)
(* BrowserDeepwikiScraper in a with-block.  The state of the object is     *)
(* self.pydoll; the driver is what it starts and closes.                   *)
(***************************************************************************)

MaxCalls == 3
MaxNavItems == 1
MaxRunLibraries == 2

\* the state of the object and of the driver
BrowserState ==
    [ pydoll |-> pydoll, running |-> running, started |-> started,
      fetch_log |-> fetch_log ]

\* _start_browser: a browser is started only when there is none
StartBrowser(st) ==
    IF st.pydoll = None
    THEN [ st EXCEPT !.pydoll = Some(st.started + 1),
                     !.running = st.running \cup { st.started + 1 },
                     !.started = st.started + 1 ]
    ELSE st

\* _stop_browser: the browser is closed and forgotten
StopBrowser(st) ==
    IF st.pydoll # None
    THEN [ st EXCEPT !.running = st.running \ { st.pydoll[1] },
                     !.pydoll = None ]
    ELSE st

\* get_page_content: the fetch is attempted with self.pydoll as it is;
\* without a browser self.pydoll.goto raises, which is caught, and None is
\* returned
GetPageContent(st) ==
    [ st EXCEPT !.fetch_log = Append(st.fetch_log, st.pydoll # None) ]

\* whether get_page_content returns markup: never without a browser
GotContent(st, ok) == ok /\ st.pydoll # None

\* scrape_page: one fetch, the rest works on what it returned
ScrapePageOf(st) == GetPageContent(st)

\* the loop over nav_items of scrape_library
RECURSIVE ScrapeNavPages(_, _)
ScrapeNavPages(st, n) ==
    IF n = 0 THEN st ELSE ScrapeNavPages(ScrapePageOf(st), n - 1)

\* scrape_library: the browser is started if there is none, the main page
\* fetched, then the main page and the navigation pages scraped; the browser
\* is stopped in the finally clause, however the try block ends
ScrapeLibraryOf(st, lib) ==
    LET s1 == StartBrowser(st)
        s2 == GetPageContent(s1)
    IN  StopBrowser(
            IF ~GotContent(s1, lib.main_ok) THEN s2
            ELSE ScrapeNavPages(ScrapePageOf(s2), lib.nav_items))

\* run: scrape_library for each library in turn
RECURSIVE RunOf(_, _)
RunOf(st, libraries) ==
    IF Len(libraries) = 0 THEN st
    ELSE RunOf(ScrapeLibraryOf(st, Head(libraries)), Tail(libraries))

\* how a library behaves: whether its main page is fetched, and the number of
\* its navigation items
Libraries == [ main_ok : BOOLEAN, nav_items : 0..MaxNavItems ]

\* BrowserDeepwikiScraper() built: self.pydoll = None
InitBrowser ==
    /\ RenderIdle /\ ConvertIdle /\ PipelineIdle /\ ScrapeIdle /\ DocsIdle
    /\ PageIdle /\ CleanerIdle /\ FilenameIdle /\ UrlIdle /\ MarkersIdle
    /\ FilterIdle /\ LibrariesIdle
    /\ pydoll = None /\ running = {} /\ started = 0
    /\ fetch_log = << >> /\ calls_made = 0
    /\ bpc = "built"

\* the new state of the object and the driver
BrowserBecomes(st) ==
    /\ pydoll' = st.pydoll
    /\ running' = st.running
    /\ started' = st.started
    /\ fetch_log' = st.fetch_log

\* __enter__
BrowserEnter ==
    /\ bpc = "built"
    /\ BrowserBecomes(StartBrowser(BrowserState))
    /\ bpc' = "inside"
    /\ UNCHANGED << calls_made, bframe >>

\* scraper.scrape_page(url, library_name) in the block
BrowserScrapePage ==
    /\ bpc = "inside" /\ calls_made < MaxCalls
    /\ BrowserBecomes(ScrapePageOf(BrowserState))
    /\ calls_made' = calls_made + 1
    /\ UNCHANGED << bpc, bframe >>

\* scraper.scrape_library(library_name, library_url) in the block
BrowserScrapeLibrary ==
    /\ bpc = "inside" /\ calls_made < MaxCalls
    /\ \E lib \in Libraries :
          BrowserBecomes(ScrapeLibraryOf(BrowserState, lib))
    /\ calls_made' = calls_made + 1
    /\ UNCHANGED << bpc, bframe >>

\* scraper.run(libraries) in the block
BrowserRun ==
    /\ bpc = "inside" /\ calls_made < MaxCalls
    /\ \E libraries \in SeqsUpTo(Libraries, MaxRunLibraries) :
          BrowserBecomes(RunOf(BrowserState, libraries))
    /\ calls_made' = calls_made + 1
    /\ UNCHANGED << bpc, bframe >>

\* __exit__
BrowserExit ==
    /\ bpc = "inside"
    /\ BrowserBecomes(StopBrowser(BrowserState))
    /\ bpc' = "exited"
    /\ UNCHANGED << calls_made, bframe >>

NextBrowser ==
    \/ BrowserEnter \/ BrowserScrapePage \/ BrowserScrapeLibrary
    \/ BrowserRun \/ BrowserExit

SpecBrowser == InitBrowser /\ [][NextBrowser]_vars

\* C30: between __enter__ and __exit__ the browser stays started, whatever
\* calls of scrape_library, scrape_page and run were made, and every page
\* fetch was attempted with a running browser; there is never more than one
\* browser instance, and none after __exit__.
C30_BrowserStartedThroughoutTheBlock ==
    /\ bpc = "inside" => pydoll # None /\ running = { pydoll[1] }
    /\ \A f \in 1..Len(fetch_log) : fetch_log[f]
    /\ Cardinality(running) <= 1
    /\ bpc = "exited" => pydoll = None /\ running = {}

====
